---- MODULE Spec2Model ----
(***************************************************************************)
(* Model of the /email pipeline of spirit-tracker-api:                     *)
(*   - handleEmailPack (src/src/index.ts): HMAC check, pack validation,    *)
(*     directory scan, sequential delivery loop under withTimeout;         *)
(*   - sendMailSmtp / SmtpClient / smtpAuth (src/src/smtp.ts): the SMTP    *)
(*     conversation of one delivery attempt.                               *)
(* Every await of the code is a suspension point; one action models the    *)
(* code that runs between two suspension points.                           *)
(***************************************************************************)
EXTENDS Integers, Sequences, FiniteSets, TLC

\* ---------------------------------------------------------------- bounds
\* number of keys the account directory holds under "auth/email/"
MaxKeys == 2
\* number of rows of body.events
MaxRows == 2
\* number of jobs of a long job list
MaxJobs == 27
\* number of rules of a user's rule list
MaxRules == 3
\* lines a peer's byte stream holds at most
MaxLines == 3
\* characters a mail body holds at most
MaxBody == 4
MaxRuleList == 52
MaxRequests == 2

\* ------------------------------------------------------ program constants
STEP_MS == 30000
FailureCap == 25
ImplicitTlsPort == 465
HmacWindowSeconds == 300
MAX_KEY == 256
MAX_STORE_ID == 64
MAX_MEMBERS == 256
MAX_CHEAPEST_STORES == 64
MAX_OFFERS == 256
MAX_EVENTS == 50000
MAX_RULES == 50
MAX_TEXT == 64

\* ------------------------------------------------------------ input sets
\* well-formed user ids the directory may reference
UserOrder == <<"u1", "u2">>
Users == {UserOrder[i] : i \in 1..Len(UserOrder)}
\* MAIL_PORT values: unset (Number('0')), implicit TLS, submission
Ports == {0, 465, 587}
\* reply codes the peer may answer with
Codes == {220, 235, 250, 251, 334, 354, 550}

\* An EHLO reply line after the "ddd[ -]" prefix, as a sequence of words
\* separated by single spaces.
EhloReplies ==
  { {},
    { <<"PIPELINING">> },
    { <<"STARTTLS">> },
    { <<"starttls">>, <<"AUTH", "PLAIN", "LOGIN">> },
    { <<"STARTTLS">>, <<"AUTH", "LOGIN">> },
    { <<"AUTH", "LOGIN">> },
    { <<"auth", "plain">> },
    { <<"AUTH", "PLAIN-CLIENTTOKEN">> } }

\* ------------------------------------------------- smtp.ts pure helpers
\* String.prototype.toUpperCase on the words of the alphabet
UpperWord(w) ==
  CASE w = "starttls" -> "STARTTLS"
    [] w = "auth"     -> "AUTH"
    [] w = "plain"    -> "PLAIN"
    [] w = "login"    -> "LOGIN"
    [] OTHER          -> w

UpperLine(l) == [i \in 1..Len(l) |-> UpperWord(l[i])]

\* words w for which " " + w contains " PLAIN" / " LOGIN"
BeginsPLAIN(w) == w \in {"PLAIN", "PLAIN-CLIENTTOKEN"}
BeginsLOGIN(w) == w \in {"LOGIN"}

parseEhloCaps(lines) == {UpperLine(l) : l \in lines}

hasAuthPlain(caps) ==
  \E c \in caps : Len(c) >= 2 /\ c[1] = "AUTH" /\ \E i \in 2..Len(c) : BeginsPLAIN(c[i])

hasAuthLogin(caps) ==
  \E c \in caps : Len(c) >= 2 /\ c[1] = "AUTH" /\ \E i \in 2..Len(c) : BeginsLOGIN(c[i])

hasStartTls(caps) == <<"STARTTLS">> \in caps

\* error values: the message and the number it carries (0: none)
Err(m, n) == [msg |-> m, code |-> n]
NoErr == Err("", 0)


\* -------------------------------------------- sendMailSmtp, step by step
\* The position of one invocation is the reply it is waiting for.
WaitPcs == {"banner", "ehlo", "starttls", "ehlo2", "authplain", "authlogin",
            "user", "pass", "mail", "rcpt", "data", "body", "quit"}

\* (mutant) a 235 counts as an answer to AUTH LOGIN and to the username
Expected_lenientLogin(pc) ==
  CASE pc = "banner"    -> {220}
    [] pc = "ehlo"      -> {250}
    [] pc = "starttls"  -> {220}
    [] pc = "ehlo2"     -> {250}
    [] pc = "authplain" -> {235}
    [] pc = "authlogin" -> {334, 235}
    [] pc = "user"      -> {334, 235}
    [] pc = "pass"      -> {235}
    [] pc = "mail"      -> {250}
    [] pc = "rcpt"      -> {250, 251}
    [] pc = "data"      -> {354}
    [] pc = "body"      -> {250}
    [] OTHER            -> Codes

\* (mutant) any 2xx reply counts as success where a 2xx reply is required
Expected_any2xx(pc) ==
  CASE pc \in {"authlogin", "user"} -> {334}
    [] pc = "data" -> {354}
    [] pc = "quit" -> Codes
    [] OTHER -> {n \in Codes : n >= 200 /\ n < 300}

\* the reply code(s) each step requires; the reply to QUIT is not inspected
Expected(pc) ==
  CASE pc = "banner"    -> {220}
    [] pc = "ehlo"      -> {250}
    [] pc = "starttls"  -> {220}
    [] pc = "ehlo2"     -> {250}
    [] pc = "authplain" -> {235}
    [] pc = "authlogin" -> {334}
    [] pc = "user"      -> {334}
    [] pc = "pass"      -> {235}
    [] pc = "mail"      -> {250}
    [] pc = "rcpt"      -> {250, 251}
    [] pc = "data"      -> {354}
    [] pc = "body"      -> {250}
    [] OTHER            -> Codes

FailMsg(pc) ==
  CASE pc = "banner"    -> "SMTP banner failed"
    [] pc = "ehlo"      -> "SMTP EHLO failed"
    [] pc = "starttls"  -> "SMTP STARTTLS failed"
    [] pc = "ehlo2"     -> "SMTP EHLO (post-TLS) failed"
    [] pc \in {"authplain", "authlogin", "user", "pass"} -> "SMTP auth failed"
    [] pc = "mail"      -> "SMTP MAIL FROM failed"
    [] pc = "rcpt"      -> "SMTP RCPT TO failed"
    [] pc = "data"      -> "SMTP DATA failed"
    [] OTHER            -> "SMTP send failed"

\* what is written on the socket when the invocation starts waiting at pc
CmdOf(pc) ==
  CASE pc = "ehlo"      -> "EHLO"
    [] pc = "starttls"  -> "STARTTLS"
    [] pc = "ehlo2"     -> "EHLO"
    [] pc = "authplain" -> "AUTH PLAIN"
    [] pc = "authlogin" -> "AUTH LOGIN"
    [] pc = "user"      -> "USERNAME"
    [] pc = "pass"      -> "PASSWORD"
    [] pc = "mail"      -> "MAIL FROM"
    [] pc = "rcpt"      -> "RCPT TO"
    [] pc = "data"      -> "DATA"
    [] pc = "body"      -> "BODY"
    [] OTHER            -> "QUIT"

\* state of one invocation: position, the connection (open, tls), the
\* locals isEncrypted, caps and r.code, and the number of connections and
\* MAIL FROM commands it has issued
IdleInv == [pc |-> "idle", open |-> FALSE, tls |-> FALSE, isEncrypted |-> FALSE,
            caps |-> {}, r |-> 0, conns |-> 0, mails |-> 0]

\* outcome of the code between two awaits: the invocation goes on waiting
\* ("run"), returns ("ok") or throws err ("err")
Goto(c, p)   == [c |-> [c EXCEPT !.pc = p], fin |-> "run", err |-> NoErr]
Throw(c, e)  == [c |-> c, fin |-> "err", err |-> e]
Return(c)    == [c |-> c, fin |-> "ok", err |-> NoErr]

\* (mutant) authentication left out
smtpAuth_skipped(c) == Goto(c, "mail")

\* smtpAuth: AUTH PLAIN when advertised, else AUTH LOGIN, else fail
smtpAuth(c) ==
  IF hasAuthPlain(c.caps) THEN Goto(c, "authplain")
  ELSE IF hasAuthLogin(c.caps) THEN Goto(c, "authlogin")
  ELSE Throw(c, Err("SMTP server does not support AUTH PLAIN/LOGIN", 0))

\* (mutant) the post-TLS EHLO reply is not parsed: caps keeps its value
CapsAfterEhlo_keepsFirst(c, lines) ==
  IF c.pc = "ehlo2" THEN c.caps ELSE parseEhloCaps(lines)

\* the caps local after an EHLO reply
CapsAfterEhlo(c, lines) == parseEhloCaps(lines)

\* (mutant) without STARTTLS on offer, authenticate on the plain connection
AfterEhlo_plaintextFallback(c) ==
  IF ~c.isEncrypted /\ hasStartTls(c.caps) THEN Goto(c, "starttls") ELSE smtpAuth(c)

\* after the first EHLO: "if (!isEncrypted) { STARTTLS or fail }", else AUTH
AfterEhlo(c) ==
  IF ~c.isEncrypted
  THEN IF ~hasStartTls(c.caps)
       THEN Throw(c, Err("SMTP server does not support STARTTLS", 0))
       ELSE Goto(c, "starttls")
  ELSE smtpAuth(c)

\* the reply at c.pc carried the required code: what the code does next
Accepted(c, lines) ==
  CASE c.pc = "banner" -> Goto(c, "ehlo")
    [] c.pc = "ehlo" -> AfterEhlo([c EXCEPT !.caps = CapsAfterEhlo(c, lines)])
    [] c.pc = "starttls" ->
         Goto([c EXCEPT !.tls = TRUE, !.isEncrypted = TRUE], "ehlo2")
    [] c.pc = "ehlo2" -> smtpAuth([c EXCEPT !.caps = CapsAfterEhlo(c, lines)])
    [] c.pc = "authplain" -> Goto(c, "mail")
    [] c.pc = "authlogin" -> Goto(c, "user")
    [] c.pc = "user" -> Goto(c, "pass")
    [] c.pc = "pass" -> Goto(c, "mail")
    [] c.pc = "mail" -> Goto(c, "rcpt")
    [] c.pc = "rcpt" -> Goto(c, "data")
    [] c.pc = "data" -> Goto(c, "body")
    [] OTHER -> Goto(c, "quit")

\* (mutant) a transaction step that is refused starts the transaction again
OnReply_retriesTransaction(c, code, lines, wok) ==
  LET c1 == [c EXCEPT !.r = code]
      a  == IF c.pc = "quit" THEN Return(c)
            ELSE IF code \notin Expected(c.pc)
                 THEN IF c.pc \in {"rcpt", "data", "body"}
                      THEN Goto(c1, "mail")
                      ELSE Throw(c1, Err(FailMsg(c.pc), code))
                 ELSE Accepted(c1, lines)
  IN  IF a.fin # "run" THEN a
      ELSE IF wok
           THEN [a EXCEPT !.c.mails = @ + (IF a.c.pc = "mail" THEN 1 ELSE 0)]
           ELSE IF a.c.pc = "quit" THEN Return(a.c)
                ELSE Throw(a.c, Err("write failed", 0))

\* a reply (code, lines) arrives at an invocation waiting at c.pc; wok tells
\* whether the write of the next command succeeds
OnReply(c, code, lines, wok) ==
  LET c1 == [c EXCEPT !.r = code]
      a  == IF c.pc = "quit" THEN Return(c)
            ELSE IF code \notin Expected(c.pc)
                 THEN Throw(c1, Err(FailMsg(c.pc), code))
                 ELSE Accepted(c1, lines)
  IN  IF a.fin # "run" THEN a
      ELSE IF wok
           THEN [a EXCEPT !.c.mails = @ + (IF a.c.pc = "mail" THEN 1 ELSE 0)]
           ELSE IF a.c.pc = "quit" THEN Return(a.c)
                ELSE Throw(a.c, Err("write failed", 0))

\* (mutant) the end of the stream is an error at every step
OnPeerClose_alwaysThrows(c) == Throw(c, Err("SMTP connection closed", 0))

\* the reader reports the end of the stream while the invocation waits
OnPeerClose(c) ==
  IF c.pc = "quit" THEN Return(c) ELSE Throw(c, Err("SMTP connection closed", 0))

\* finally { await client.close() }: the socket is closed and the frame is
\* gone; what stays is the last reply code read and the two counts
Closed(c) ==
  [IdleInv EXCEPT !.pc = "exited", !.r = c.r, !.conns = c.conns, !.mails = c.mails]


\* ------------------------------------------- validate.ts: the event pack
\* JSON values as the validator sees them: typeof and the value.  Text that
\* the code trims or tests against a pattern is a sequence of characters;
\* text that is only compared or copied is a string.
Undef == [t |-> "undefined"]
Null == [t |-> "null"]
Str(s) == [t |-> "string", v |-> s]
Txt(cs) == [t |-> "string", c |-> cs]
Num(n) == [t |-> "number", v |-> n]
NaNum == [t |-> "nonfinite"]
Bool(b) == [t |-> "boolean", v |-> b]
Arr(s) == [t |-> "array", v |-> s]
Obj(r) == [t |-> "object", v |-> r]

IsString(x) == x.t = "string"
\* typeof x === "number" && Number.isFinite(x)
IsFiniteNumber(x) == x.t = "number"
\* x && typeof x === "object" && !Array.isArray(x)
IsPlainObject(x) == x.t = "object"
\* !!x
Truthy(x) ==
  CASE x.t \in {"undefined", "null", "nonfinite"} -> FALSE
    [] x.t = "boolean" -> x.v
    [] x.t = "number" -> x.v # 0
    [] x.t = "string" -> IF "c" \in DOMAIN x THEN x.c # <<>> ELSE x.v # ""
    [] OTHER -> TRUE

\* Number(x) for the values a version position may hold
ToNumber(x) ==
  CASE x.t = "number" -> x
    [] x.t = "boolean" -> Num(IF x.v THEN 1 ELSE 0)
    [] x.t = "null" -> Num(0)
    [] x.t = "string" -> IF "v" \in DOMAIN x /\ x.v = "1" THEN Num(1) ELSE NaNum
    [] OTHER -> NaNum

AlnumColon == {"a", "b", "1", ":"}
StoreIdChars == {"a", "b", "1", "_", "-"}
Blank == {" "}

\* String.prototype.trim
RECURSIVE TrimLeft(_)
TrimLeft(s) == IF s # <<>> /\ Head(s) \in Blank THEN TrimLeft(Tail(s)) ELSE s
RECURSIVE TrimRight(_)
TrimRight(s) ==
  IF s # <<>> /\ s[Len(s)] \in Blank THEN TrimRight(SubSeq(s, 1, Len(s) - 1)) ELSE s
Trim(s) == TrimRight(TrimLeft(s))

\* typeof x === "string" ? x.trim() : ""
TrimmedOrEmpty(x) == IF IsString(x) THEN Trim(x.c) ELSE <<>>
\* typeof x === "string" ? x : ""
StringOrEmpty(x) == IF IsString(x) THEN x.v ELSE ""

\* SKU_RE = /^[A-Za-z0-9:]+$/ and STORE_ID_RE = /^[a-z0-9_-]{1,64}$/
SKU_RE(s) == Len(s) >= 1 /\ \A i \in 1..Len(s) : s[i] \in AlnumColon
STORE_ID_RE(s) == Len(s) >= 1 /\ Len(s) <= MAX_STORE_ID /\ \A i \in 1..Len(s) : s[i] \in StoreIdChars

\* String(value ?? "").trim() for the values a SKU position may hold
SkuText(x) ==
  CASE x.t = "string" -> Trim(x.c)
    [] x.t \in {"undefined", "null"} -> <<>>
    [] OTHER -> <<"[", "o", "]">>

\* assertSku: the trimmed text, or the error it throws
assertSku(x, msg) ==
  LET v == SkuText(x) IN
    IF v = <<>> \/ Len(v) > MAX_KEY \/ ~SKU_RE(v)
    THEN [ok |-> FALSE, err |-> msg, v |-> <<>>]
    ELSE [ok |-> TRUE, err |-> "", v |-> v]

EVENT_TYPES == {"OUT_OF_STOCK", "PRICE_DROP", "GLOBAL_NEW", "GLOBAL_RETURN"}

\* String(e.eventType || "")
EventTypeText(x) ==
  IF ~Truthy(x) THEN "" ELSE IF IsString(x) THEN x.v ELSE "[object]"

Take(s, n) == SubSeq(s, 1, IF Len(s) < n THEN Len(s) ELSE n)

RECURSIVE MapFilterMembers(_)
\* members.map(assertSku or "").filter(Boolean)
MapFilterMembers(ms) ==
  IF ms = <<>> THEN <<>>
  ELSE LET a == assertSku(Head(ms), "skus[].members must be : + alphanumerics") IN
         (IF a.ok THEN <<a.v>> ELSE <<>>) \o MapFilterMembers(Tail(ms))

Absent == [x \in {} |-> Undef]
Field(name, present, val) == IF present THEN name :> val ELSE Absent

\* one entry [k0, v] of Object.entries(body.skus)
validateSkuEntry(k0, v) ==
  LET k == assertSku(Txt(k0), "skus keys must be : + alphanumerics") IN
  IF ~k.ok THEN [kind |-> "throw", err |-> k.err]
  ELSE IF ~IsPlainObject(v) THEN [kind |-> "skip", err |-> ""]
  ELSE
    LET o == v.v
        sku == assertSku(IF o.sku.t \in {"undefined", "null"} THEN Txt(k.v) ELSE o.sku,
                         "skus[].sku must be : + alphanumerics")
        membersIn == IF o.members.t = "array" THEN o.members.v ELSE <<>>
        pr == o.priceRangeNow
        cn == o.cheapestNow
        offersIn == IF o.offersNow.t = "array" THEN o.offersNow.v ELSE <<>>
        offer(x) ==
          LET f(n) == IF x.t = "object" THEN x.v[n] ELSE Undef IN
            [storeId |-> StringOrEmpty(f("storeId")),
             storeLabel |-> StringOrEmpty(f("storeLabel")),
             url |-> StringOrEmpty(f("url")),
             price |-> StringOrEmpty(f("price")),
             priceNum |-> IF IsFiniteNumber(f("priceNum")) THEN f("priceNum") ELSE Null]
        offersCut == Take(offersIn, MAX_OFFERS)
    IN
    IF ~sku.ok THEN [kind |-> "throw", err |-> sku.err]
    ELSE [kind |-> "keep", err |-> "", k |-> k.v,
          out |-> [sku |-> sku.v,
                   name |-> TrimmedOrEmpty(o.name),
                   img |-> TrimmedOrEmpty(o.img),
                   members |-> Take(MapFilterMembers(membersIn), MAX_MEMBERS),
                   priceRangeNow |->
                     IF IsPlainObject(pr) /\ IsFiniteNumber(pr.v.min) /\ IsFiniteNumber(pr.v.max)
                     THEN Obj([min |-> pr.v.min, max |-> pr.v.max]) ELSE Null,
                   cheapestNow |->
                     IF IsPlainObject(cn) /\ IsFiniteNumber(cn.v.priceNum)
                        /\ cn.v.storeIds.t = "array"
                     THEN Obj([priceNum |-> cn.v.priceNum,
                               storeIds |-> Take(SelectSeq(cn.v.storeIds.v, IsString),
                                                 MAX_CHEAPEST_STORES)])
                     ELSE Null,
                   offersNow |-> [i \in 1..Len(offersCut) |-> offer(offersCut[i])]]]

RECURSIVE validateSkus(_, _)
\* "for (const [k0, v] of Object.entries(skusIn))": acc is the skus built so
\* far; the first throw ends the validation
validateSkus(entries, acc) ==
  IF entries = <<>> THEN [ok |-> TRUE, err |-> "", skus |-> acc]
  ELSE LET r == validateSkuEntry(Head(entries).key, Head(entries).val) IN
    CASE r.kind = "throw" -> [ok |-> FALSE, err |-> r.err, skus |-> acc]
      [] r.kind = "skip" -> validateSkus(Tail(entries), acc)
      [] OTHER -> validateSkus(Tail(entries), (r.k :> r.out) @@ acc)

\* the fields "if (eventType === 'PRICE_DROP') { ... }" copies from row r
DropFields(r) ==
  Field("oldPrice", IsString(r.oldPrice), r.oldPrice)
  @@ Field("newPrice", IsString(r.newPrice), r.newPrice)
  @@ Field("dropAbs", IsFiniteNumber(r.dropAbs), r.dropAbs)
  @@ Field("dropPct", IsFiniteNumber(r.dropPct) \/ r.dropPct.t = "null", r.dropPct)
  @@ ("isCheapestNow" :> Bool(r.isCheapestNow.t = "boolean" /\ r.isCheapestNow.v))

\* (mutant) the price fields are copied whatever the event type
PriceFieldsOf_anyType(eventType, r) == DropFields(r)

\* the optional fields of the validated event: newPrice alone for an event
\* that is no PRICE_DROP
PriceFieldsOf(eventType, r) ==
  IF eventType # "PRICE_DROP"
  THEN Field("newPrice", IsString(r.newPrice), r.newPrice)
  ELSE DropFields(r)

\* one row of eventsIn
validateEvent(e) ==
  IF ~IsPlainObject(e) THEN [kind |-> "skip", err |-> ""]
  ELSE
    LET r == e.v
        eventType == EventTypeText(r.eventType)
        sku == assertSku(r.sku, "events[].sku must be : + alphanumerics")
        storeId == TrimmedOrEmpty(r.storeId)
        base == [id |-> TrimmedOrEmpty(r.id),
                 marketId |-> TrimmedOrEmpty(r.marketId),
                 eventType |-> eventType,
                 sku |-> sku.v,
                 storeId |-> storeId,
                 storeLabel |-> StringOrEmpty(r.storeLabel),
                 listingUrl |-> StringOrEmpty(r.listingUrl),
                 marketNew |-> Truthy(r.marketNew),
                 marketReturn |-> Truthy(r.marketReturn),
                 marketOut |-> Truthy(r.marketOut),
                 baseInStockCount |->
                   IF IsFiniteNumber(r.baseInStockCount) THEN r.baseInStockCount.v ELSE 0,
                 headInStockCount |->
                   IF IsFiniteNumber(r.headInStockCount) THEN r.headInStockCount.v ELSE 0]
    IN
    IF eventType \notin EVENT_TYPES THEN [kind |-> "skip", err |-> ""]
    ELSE IF ~sku.ok THEN [kind |-> "throw", err |-> sku.err]
    ELSE IF storeId # <<>> /\ ~STORE_ID_RE(storeId) THEN [kind |-> "skip", err |-> ""]
    ELSE [kind |-> "keep", err |-> "",
          out |-> base @@ PriceFieldsOf(eventType, r)]

RECURSIVE validateEvents(_)
\* "for (const e of eventsIn.slice(0, 50000))"
validateEvents(rows) ==
  IF rows = <<>> THEN [ok |-> TRUE, err |-> "", events |-> <<>>]
  ELSE LET r == validateEvent(Head(rows)) IN
    IF r.kind = "throw" THEN [ok |-> FALSE, err |-> r.err, events |-> <<>>]
    ELSE LET rest == validateEvents(Tail(rows)) IN
      IF ~rest.ok THEN rest
      ELSE [rest EXCEPT !.events = (IF r.kind = "keep" THEN <<r.out>> ELSE <<>>) \o @]

NoPack == [ok |-> FALSE, err |-> "", generatedAt |-> <<>>, skus |-> Absent, events |-> <<>>]
Rejected(msg) == [NoPack EXCEPT !.err = msg]

\* validateEmailEventPackV1(body): the pack, or the error it throws
validateEmailEventPackV1(b) ==
  IF ~IsPlainObject(b) THEN Rejected("email event pack must be an object")
  ELSE
    LET version == ToNumber(b.v.version)
        generatedAt == TrimmedOrEmpty(b.v.generatedAt)
        skusIn == b.v.skus
        eventsIn == b.v.events
    IN
    IF ~(version.t = "number" /\ version.v = 1) THEN Rejected("email event pack version must be 1")
    ELSE IF generatedAt = <<>> THEN Rejected("email event pack generatedAt must be string")
    ELSE IF ~IsPlainObject(skusIn) THEN Rejected("email event pack skus must be an object")
    ELSE IF eventsIn.t # "array" THEN Rejected("email event pack events must be an array")
    ELSE
      LET s == validateSkus(skusIn.v, Absent) IN
      IF ~s.ok THEN Rejected(s.err)
      ELSE
        LET ev == validateEvents(Take(eventsIn.v, MAX_EVENTS)) IN
        IF ~ev.ok THEN Rejected(ev.err)
        ELSE [ok |-> TRUE, err |-> "", generatedAt |-> generatedAt,
              skus |-> s.skus, events |-> ev.events]

\* ------------------------------------------------ inputs of the validator
EventFields ==
  {"eventType", "id", "marketId", "sku", "storeId", "storeLabel", "listingUrl",
   "marketNew", "marketReturn", "marketOut", "baseInStockCount",
   "headInStockCount", "oldPrice", "newPrice", "dropAbs", "dropPct",
   "isCheapestNow"}
\* an event row that sets the fields of r and no other
Row(r) == Obj(r @@ [f \in EventFields |-> Undef])

PriceFields ==
  [oldPrice |-> Str("10.00"), newPrice |-> Str("8.00"), dropAbs |-> Num(2),
   dropPct |-> Num(20), isCheapestNow |-> Bool(TRUE)]

EventRows ==
  { Row([eventType |-> Str("PRICE_DROP"), id |-> Txt(<<"1">>), sku |-> Txt(<<"a", ":", "1">>),
         storeId |-> Txt(<<"a">>)] @@ PriceFields),
    Row([eventType |-> Str("GLOBAL_NEW"), id |-> Txt(<<"b">>), sku |-> Txt(<<"b">>),
         marketNew |-> Bool(TRUE)] @@ PriceFields),
    Row([eventType |-> Str("OUT_OF_STOCK"), sku |-> Txt(<<" ", "a", ":", "1", " ">>),
         storeId |-> Txt(<<" ", "b", "_", "1">>), marketOut |-> Num(1)]),
    Row([eventType |-> Str("PRICE_DROP"), sku |-> Txt(<<"b">>), newPrice |-> Num(8),
         dropAbs |-> NaNum, dropPct |-> Null, isCheapestNow |-> Str("yes")]),
    Row([eventType |-> Str("RESTOCK"), sku |-> Txt(<<"a">>)] @@ PriceFields),
    Row([eventType |-> Str("RESTOCK"), sku |-> Txt(<<"a", " ", "b">>)]),
    Row([eventType |-> Str("GLOBAL_RETURN"), sku |-> Txt(<<"a", " ", "b">>)]),
    Row([eventType |-> Str("GLOBAL_RETURN")]),
    Row([eventType |-> Str("GLOBAL_RETURN"), sku |-> Txt(<<"a">>),
         storeId |-> Txt(<<"a", ":">>)]),
    Null }

SkuFields == {"sku", "name", "img", "members", "priceRangeNow", "cheapestNow", "offersNow"}
SkuVal(r) == Obj(r @@ [f \in SkuFields |-> Undef])
SkuEntry(k, v) == [key |-> k, val |-> v]

Sku_a1 ==
  SkuEntry(<<"a", ":", "1">>,
    SkuVal([name |-> Txt(<<" ", "a">>),
            members |-> Arr(<<Txt(<<"a", ":", "1">>), Txt(<<"b", " ", "b">>), Num(1),
                              Txt(<<"b", " ">>)>>),
            priceRangeNow |-> Obj([min |-> Num(8), max |-> Num(10)]),
            cheapestNow |-> Obj([priceNum |-> Num(8),
                                 storeIds |-> Arr(<<Str("a"), Num(1)>>)]),
            offersNow |-> Arr(<<Obj([storeId |-> Str("a"), storeLabel |-> Undef,
                                     url |-> Str("u"), price |-> Str("8.00"),
                                     priceNum |-> Num(8)]), Null>>)]))
Sku_b == SkuEntry(<<"b">>, SkuVal([sku |-> Txt(<<" ", "b", "1">>), name |-> Txt(<<"b">>)]))
Sku_bPadded == SkuEntry(<<" ", "b">>, SkuVal([name |-> Txt(<<"a">>)]))
Sku_noObject == SkuEntry(<<"1">>, Null)
Sku_badKey == SkuEntry(<<"a", " ", "b">>, SkuVal([name |-> Txt(<<"a">>)]))
Sku_badSku == SkuEntry(<<"a">>, SkuVal([sku |-> Txt(<<"a", " ", "b">>)]))

SkuObjects ==
  { <<>>, <<Sku_a1>>, <<Sku_a1, Sku_b>>, <<Sku_b, Sku_bPadded>>, <<Sku_noObject, Sku_b>>,
    <<Sku_a1, Sku_badKey, Sku_b>>, <<Sku_b, Sku_badSku>>, <<Sku_noObject, Sku_badKey>> }

RowLists(n) == UNION {[1..k -> EventRows] : k \in 0..n}

Body(version, generatedAt, skus, events) ==
  Obj([version |-> version, generatedAt |-> generatedAt, skus |-> skus, events |-> events])

\* req.json() rejects
Unparsable == [t |-> "unparsable"]

GoodBody ==
  Body(Num(1), Txt(<<"1">>), Obj(<<Sku_a1>>),
       Arr(<<CHOOSE r \in EventRows : r # Null /\ r.v.id = Txt(<<"1">>)>>))

\* bodies whose top level is rejected
BadTopBodies ==
  { Unparsable, Null, Arr(<<>>),
    Body(Num(2), Txt(<<"1">>), Obj(<<>>), Arr(<<>>)),
    Body(Undef, Txt(<<"1">>), Obj(<<>>), Arr(<<>>)),
    Body(Str("1"), Txt(<<" ">>), Obj(<<>>), Arr(<<>>)),
    Body(Num(1), Num(1), Obj(<<>>), Arr(<<>>)),
    Body(Num(1), Txt(<<"1">>), Arr(<<>>), Arr(<<>>)),
    Body(Num(1), Txt(<<"1">>), Undef, Arr(<<>>)),
    Body(Num(1), Txt(<<"1">>), Obj(<<>>), Obj(<<>>)),
    Body(Num(1), Txt(<<"1">>), Obj(<<>>), Undef) }

\* bodies with a well-formed top level
PackBodies ==
  { Body(Str("1"), Txt(<<" ", "1">>), Obj(ss), Arr(rs)) :
      ss \in SkuObjects, rs \in RowLists(MaxRows) }

Bodies == BadTopBodies \cup PackBodies

\* ------------------------------------------- index.ts: the rule matcher
\* A rule is [id, enabled, scope, eventType, filters]; filters holds the
\* JSON value of each filter, Undef where the rule document has none
\* ("rule.filters || {}" makes an absent filters object the same thing).
NoFilters ==
  [storeId |-> Undef, acrossMarket |-> Undef, keywordsAny |-> Undef,
   keywordsNone |-> Undef, minDropAbs |-> Undef, minDropPct |-> Undef,
   requireCheapestNow |-> Undef]

\* String.prototype.toLowerCase on the letters names and keywords use
LowerOf(c) == CASE c = "A" -> "a" [] c = "B" -> "b" [] OTHER -> c
\* lc(s) = String(s ?? "").toLowerCase()
lc(s) == [i \in 1..Len(s) |-> LowerOf(s[i])]
\* String.prototype.includes
Includes(s, k) == \E i \in 0..(Len(s) - Len(k)) : SubSeq(s, i + 1, i + Len(k)) = k

\* (mutant) an explicit acrossMarket is honoured for PRICE_DROP as well
ruleAcrossMarket_flagFirst(rule) ==
  LET f == rule.filters IN
    IF f.acrossMarket.t = "boolean" THEN f.acrossMarket.v
    ELSE rule.eventType = "GLOBAL_NEW"

ruleAcrossMarket(rule) ==
  LET f == rule.filters IN
    IF rule.eventType = "PRICE_DROP" THEN FALSE
    ELSE IF f.acrossMarket.t = "boolean" THEN f.acrossMarket.v
    ELSE rule.eventType = "GLOBAL_NEW"

skuInShortlist(p, canonSku, favs) ==
  IF favs = {} THEN FALSE
  ELSE IF canonSku \notin DOMAIN p.skus THEN FALSE
  ELSE LET s == p.skus[canonSku] IN
    IF s.sku \in favs THEN TRUE
    ELSE \E i \in 1..Len(s.members) : s.members[i] \in favs

\* "// scope"
ScopeCheck(p, rule, ev, favs) ==
  IF rule.scope = "shortlist" THEN skuInShortlist(p, ev.sku, favs) ELSE TRUE

\* "// store filter"
StoreFilter(f, ev) ==
  IF f.storeId.t = "string" /\ Trim(f.storeId.c) # <<>>
  THEN ev.storeId = Trim(f.storeId.c)
  ELSE TRUE

\* "(k) => { const kk = lc(k).trim(); return kk ? nameL.includes(kk) : false; }"
KeywordHit(nameL, k) ==
  LET kk == Trim(lc(k.c)) IN
    IF kk # <<>> THEN Includes(nameL, kk) ELSE FALSE
SomeKeyword(nameL, ks) == \E i \in 1..Len(ks) : KeywordHit(nameL, ks[i])

\* "// keyword filters (substring, case-insensitive)"
KeywordFilters(f, nameL) ==
  IF f.keywordsAny.t = "array" /\ f.keywordsAny.v # <<>> /\ ~SomeKeyword(nameL, f.keywordsAny.v)
  THEN FALSE
  ELSE IF f.keywordsNone.t = "array" /\ f.keywordsNone.v # <<>>
          /\ SomeKeyword(nameL, f.keywordsNone.v)
  THEN FALSE
  ELSE TRUE

\* (mutant) the market flag is asked for whatever acrossMarket says
AcrossMarketCheck_always(rule, ev) ==
  IF rule.eventType = "GLOBAL_NEW" /\ ~ev.marketNew THEN FALSE
  ELSE IF rule.eventType = "GLOBAL_RETURN" /\ ~ev.marketReturn THEN FALSE
  ELSE IF rule.eventType = "OUT_OF_STOCK" /\ ~ev.marketOut THEN FALSE
  ELSE TRUE

\* "// acrossMarket semantics for the 3 event types"
AcrossMarketCheck(rule, ev) ==
  IF ruleAcrossMarket(rule)
  THEN IF rule.eventType = "GLOBAL_NEW" /\ ~ev.marketNew THEN FALSE
       ELSE IF rule.eventType = "GLOBAL_RETURN" /\ ~ev.marketReturn THEN FALSE
       ELSE IF rule.eventType = "OUT_OF_STOCK" /\ ~ev.marketOut THEN FALSE
       ELSE TRUE
  ELSE TRUE

\* typeof ev[name] === "number" ? ev[name] : NaN
NumberOrNaN(ev, name) ==
  IF name \in DOMAIN ev /\ ev[name].t \in {"number", "nonfinite"} THEN ev[name] ELSE NaNum
\* ev[name] === true
IsTrue(ev, name) == name \in DOMAIN ev /\ ev[name].t = "boolean" /\ ev[name].v

\* (mutant) an event without a finite dropAbs or dropPct passes the thresholds
PriceDropFilters_missingPasses(rule, ev) ==
  LET f == rule.filters
      dropAbs == NumberOrNaN(ev, "dropAbs")
      dropPct == NumberOrNaN(ev, "dropPct")
  IN
  IF rule.eventType # "PRICE_DROP" THEN TRUE
  ELSE IF IsFiniteNumber(f.minDropAbs)
          /\ IsFiniteNumber(dropAbs) /\ dropAbs.v < f.minDropAbs.v
  THEN FALSE
  ELSE IF IsFiniteNumber(f.minDropPct)
          /\ IsFiniteNumber(dropPct) /\ dropPct.v < f.minDropPct.v
  THEN FALSE
  ELSE IF f.requireCheapestNow.t = "boolean" /\ f.requireCheapestNow.v
          /\ ~IsTrue(ev, "isCheapestNow")
  THEN FALSE
  ELSE TRUE

\* "// PRICE_DROP filters"
PriceDropFilters(rule, ev) ==
  LET f == rule.filters
      dropAbs == NumberOrNaN(ev, "dropAbs")
      dropPct == NumberOrNaN(ev, "dropPct")
  IN
  IF rule.eventType # "PRICE_DROP" THEN TRUE
  ELSE IF IsFiniteNumber(f.minDropAbs)
          /\ (~IsFiniteNumber(dropAbs) \/ dropAbs.v < f.minDropAbs.v)
  THEN FALSE
  ELSE IF IsFiniteNumber(f.minDropPct)
          /\ (~IsFiniteNumber(dropPct) \/ dropPct.v < f.minDropPct.v)
  THEN FALSE
  ELSE IF f.requireCheapestNow.t = "boolean" /\ f.requireCheapestNow.v
          /\ ~IsTrue(ev, "isCheapestNow")
  THEN FALSE
  ELSE TRUE

\* skuObj?.name || ""
SkuNameOf(p, ev) == IF ev.sku \in DOMAIN p.skus THEN p.skus[ev.sku].name ELSE <<>>
SkuImgOf(p, ev) == IF ev.sku \in DOMAIN p.skus THEN p.skus[ev.sku].img ELSE <<>>

\* (mutant) every rule counts as enabled
RuleEnabled_always(rule) == TRUE

\* "rule.enabled" as ruleMatchesEvent and matchEventsForUser test it
RuleEnabled(rule) == rule.enabled

ruleMatchesEvent(p, rule, ev, favs) ==
  IF ~RuleEnabled(rule) THEN FALSE
  ELSE IF ev.eventType # rule.eventType THEN FALSE
  ELSE IF ~ScopeCheck(p, rule, ev, favs) THEN FALSE
  ELSE IF ~StoreFilter(rule.filters, ev) THEN FALSE
  ELSE IF ~KeywordFilters(rule.filters, lc(SkuNameOf(p, ev))) THEN FALSE
  ELSE IF ~AcrossMarketCheck(rule, ev) THEN FALSE
  ELSE IF ~PriceDropFilters(rule, ev) THEN FALSE
  ELSE TRUE

\* typeof ev[name] === "string" ? ev[name] : undefined, and its like
OptionalOf(ev, name, types) ==
  IF name \in DOMAIN ev /\ ev[name].t \in types THEN ev[name] ELSE Undef

\* "const m: MatchedEmailEvent = { ... matchedRuleIds: [rule.id] }"
MatchedOf(p, rule, ev) ==
  [eventId |-> ev.id,
   marketId |-> ev.marketId,
   eventType |-> ev.eventType,
   sku |-> ev.sku,
   skuName |-> SkuNameOf(p, ev),
   skuImg |-> SkuImgOf(p, ev),
   storeId |-> ev.storeId,
   storeLabel |-> ev.storeLabel,
   listingUrl |-> ev.listingUrl,
   marketNew |-> ev.marketNew,
   marketReturn |-> ev.marketReturn,
   marketOut |-> ev.marketOut,
   oldPrice |-> OptionalOf(ev, "oldPrice", {"string"}),
   newPrice |-> OptionalOf(ev, "newPrice", {"string"}),
   dropAbs |-> OptionalOf(ev, "dropAbs", {"number", "nonfinite"}),
   dropPct |-> OptionalOf(ev, "dropPct", {"number", "nonfinite", "null"}),
   isCheapestNow |-> IsTrue(ev, "isCheapestNow"),
   matchedRuleIds |-> <<rule.id>>]

\* the keys of the two maps; "|" joins the parts of a fallback key
MarketKey(m) == IF m.marketId # <<>> THEN m.marketId ELSE <<m.eventType, "|">> \o m.sku
StoreKey(m) ==
  IF m.eventId # <<>> THEN m.eventId
  ELSE <<m.eventType, "|">> \o m.sku \o <<"|">> \o m.storeId

InList(x, s) == \E i \in 1..Len(s) : s[i] = x

\* (mutant) every match is kept as an entry of its own
Recorded_noDedup(map, key, m) == Append(map, [key |-> key, m |-> m])

\* "const cur = map.get(key); if (!cur) map.set(key, m); else if
\* (!cur.matchedRuleIds.includes(rule.id)) cur.matchedRuleIds.push(rule.id)"
\* on a Map, which is a list of entries in the order the keys were set
Recorded(map, key, m) ==
  IF \E i \in 1..Len(map) : map[i].key = key
  THEN [i \in 1..Len(map) |->
          IF map[i].key = key /\ ~InList(m.matchedRuleIds[1], map[i].m.matchedRuleIds)
          THEN [map[i] EXCEPT !.m.matchedRuleIds = Append(@, m.matchedRuleIds[1])]
          ELSE map[i]]
  ELSE Append(map, [key |-> key, m |-> m])

NoMaps == [byId |-> <<>>, byMarket |-> <<>>]

\* (mutant) a market-level match is keyed like a store-level one
Accumulate_byEventId(p, rule, ev, st) ==
  LET m == MatchedOf(p, rule, ev) IN
    IF ruleAcrossMarket(rule)
    THEN [st EXCEPT !.byMarket = Recorded(@, StoreKey(m), m)]
    ELSE [st EXCEPT !.byId = Recorded(@, StoreKey(m), m)]

\* "if (across) { ... byMarket ... } else { ... byId ... }"
Accumulate(p, rule, ev, st) ==
  LET m == MatchedOf(p, rule, ev) IN
    IF ruleAcrossMarket(rule)
    THEN [st EXCEPT !.byMarket = Recorded(@, MarketKey(m), m)]
    ELSE [st EXCEPT !.byId = Recorded(@, StoreKey(m), m)]

\* "for (const ev of pack.events)"
RECURSIVE ForEvents(_, _, _, _, _)
ForEvents(p, rule, evs, favs, st) ==
  IF evs = <<>> THEN st
  ELSE ForEvents(p, rule, Tail(evs), favs,
                 IF ruleMatchesEvent(p, rule, Head(evs), favs)
                 THEN Accumulate(p, rule, Head(evs), st) ELSE st)

\* "for (const rule of rules) { if (!rule?.enabled) continue; ... }"
RECURSIVE ForRules(_, _, _, _)
ForRules(p, rules, favs, st) ==
  IF rules = <<>> THEN st
  ELSE ForRules(p, Tail(rules), favs,
                IF ~RuleEnabled(Head(rules)) THEN st
                ELSE ForEvents(p, Head(rules), p.events, favs, st))

\* Array.from(map.values())
Values(map) == [i \in 1..Len(map) |-> map[i].m]

marketIdsFromStore(byId) == {byId[i].m.marketId : i \in 1..Len(byId)} \ {<<>>}

\* (mutant) the market-level entries are all kept
marketOnly_all(st) == Values(st.byMarket)

marketOnly(st) ==
  LET fromStore == marketIdsFromStore(st.byId)
      kept(x) == x.marketId \notin fromStore
  IN SelectSeq(Values(st.byMarket), kept)

\* String.prototype.localeCompare on the characters the inputs use: letters
\* compare without case first, and by case (lower before upper) when that
\* leaves them equal; punctuation sorts before digits, digits before letters
Collation == <<"_", "-", "1", "a", "A", "b", "B">>
Tertiary(c) == CHOOSE i \in 1..Len(Collation) : Collation[i] = c
Primary(c) == Tertiary(LowerOf(c))
RECURSIVE CompareBy(_, _, _)
CompareBy(W(_), a, b) ==
  CASE a = <<>> /\ b = <<>> -> 0
    [] a = <<>> -> 0 - 1
    [] b = <<>> -> 1
    [] W(Head(a)) < W(Head(b)) -> 0 - 1
    [] W(Head(a)) > W(Head(b)) -> 1
    [] OTHER -> CompareBy(W, Tail(a), Tail(b))
localeCompare(a, b) ==
  LET p == CompareBy(Primary, a, b) IN IF p # 0 THEN p ELSE CompareBy(Tertiary, a, b)
\* localeCompare on the four event types
TypeOrder == <<"GLOBAL_NEW", "GLOBAL_RETURN", "OUT_OF_STOCK", "PRICE_DROP">>
TypeRank(t) == CHOOSE i \in 1..Len(TypeOrder) : TypeOrder[i] = t
localeCompareTypes(a, b) ==
  IF TypeRank(a) < TypeRank(b) THEN 0 - 1 ELSE IF TypeRank(a) > TypeRank(b) THEN 1 ELSE 0

\* the comparator of out.sort
CompareMatched(a, b) ==
  LET t == localeCompareTypes(a.eventType, b.eventType)
      n == localeCompare(a.skuName, b.skuName)
  IN IF t # 0 THEN t ELSE IF n # 0 THEN n ELSE localeCompare(a.storeId, b.storeId)

RECURSIVE InsertSorted(_, _)
InsertSorted(sorted, x) ==
  IF sorted = <<>> THEN <<x>>
  ELSE IF CompareMatched(Head(sorted), x) <= 0
       THEN <<Head(sorted)>> \o InsertSorted(Tail(sorted), x)
       ELSE <<x>> \o sorted
RECURSIVE SortedFrom(_, _)
SortedFrom(acc, rest) ==
  IF rest = <<>> THEN acc ELSE SortedFrom(InsertSorted(acc, Head(rest)), Tail(rest))

\* (mutant) the list is returned in the order the maps hold it
Sorted_asIs(s) == s

\* Array.prototype.sort with CompareMatched: a stable sort
Sorted(s) == SortedFrom(<<>>, s)

\* s with x put after its first i entries
InsertedAt(s, i, x) == SubSeq(s, 1, i) \o <<x>> \o SubSeq(s, i + 1, Len(s))

\* (mutant) a sort that is free to reorder entries that compare equal
Placements_unstable(s, x) ==
  { InsertedAt(s, i, x) :
      i \in { j \in 0..Len(s) :
                /\ \A k \in 1..j : CompareMatched(s[k], x) <= 0
                /\ \A k \in (j + 1)..Len(s) : CompareMatched(x, s[k]) <= 0 } }

\* where a sort may put x, a later entry of the input, among the earlier
\* entries s: the result is ordered under the comparator, and x stays behind
\* the entries it compares equal to (Array.prototype.sort is stable)
Placements(s, x) ==
  { InsertedAt(s, i, x) :
      i \in { j \in 0..Len(s) :
                /\ \A k \in 1..j : CompareMatched(s[k], x) <= 0
                /\ \A k \in (j + 1)..Len(s) : CompareMatched(x, s[k]) < 0 } }

\* every list out.sort(...) may leave, whatever algorithm the engine runs
RECURSIVE SortOutcomes(_)
SortOutcomes(list) ==
  IF list = <<>> THEN {<<>>}
  ELSE UNION { Placements(s, list[Len(list)]) :
                 s \in SortOutcomes(SubSeq(list, 1, Len(list) - 1)) }

\* matchEventsForUser(pack, rules, favs): the two maps and the list returned
matchEventsForUser(p, rules, favs) ==
  LET st == ForRules(p, rules, favs, NoMaps) IN
    [byId |-> st.byId, byMarket |-> st.byMarket,
     out |-> Sorted(marketOnly(st) \o Values(st.byId))]

\* ------------------------------------------------- inputs of the matcher
\* an entry of pack.skus and an event of pack.events, as the validator
\* builds them
MSku(sku, name, members) ==
  [sku |-> sku, name |-> name, img |-> <<>>, members |-> members,
   priceRangeNow |-> Null, cheapestNow |-> Null, offersNow |-> <<>>]
MEvent(r) ==
  r @@ [id |-> <<>>, marketId |-> <<>>, storeId |-> <<>>, storeLabel |-> "",
        listingUrl |-> "", marketNew |-> FALSE, marketReturn |-> FALSE,
        marketOut |-> FALSE, baseInStockCount |-> 0, headInStockCount |-> 0]
MPack(skus, events) ==
  [ok |-> TRUE, err |-> "", generatedAt |-> <<"1">>, skus |-> skus, events |-> events]

\* SKU a is named "Ab" and has the alias a:1; SKU 1 is named "a" and its
\* entry carries the sku b1; SKU b has no entry
MatchSkus ==
  (<<"a">> :> MSku(<<"a">>, <<"A", "b">>, << <<"a", ":", "1">> >>))
  @@ (<<"1">> :> MSku(<<"b", "1">>, <<"a">>, <<>>))
MatchSkuKeys == {<<"a">>, <<"1">>, <<"b">>}
Favourites == {{}, {<<"a">>}, {<<"a", ":", "1">>}, {<<"b">>}, {<<"1">>}}

MRule(id, enabled, scope, eventType, f) ==
  [id |-> id, enabled |-> enabled, scope |-> scope, eventType |-> eventType,
   filters |-> f @@ NoFilters]

MarketTypes == {"GLOBAL_NEW", "GLOBAL_RETURN", "OUT_OF_STOCK"}
\* no flag, one flag or every flag set
MarketFlags ==
  { x \in [marketNew : BOOLEAN, marketReturn : BOOLEAN, marketOut : BOOLEAN] :
      Cardinality({n \in DOMAIN x : x[n]}) # Cardinality(DOMAIN x) - 1 }
CommonFilters ==
  [storeId : {Undef, Txt(<<"a">>)},
   acrossMarket : {Undef, Bool(TRUE), Bool(FALSE)},
   keywordsAny : {Undef, Arr(<<Txt(<<"A">>)>>)},
   keywordsNone : {Undef, Arr(<<Txt(<<" ">>), Txt(<<"a", "B">>)>>)}]
PriceFilters ==
  [minDropAbs : {Undef, Num(10), Num(30)},
   minDropPct : {Undef, Num(25), Num(30)},
   requireCheapestNow : {Undef, Bool(TRUE)}]

\* calls of ruleMatchesEvent with a rule and an event of the same type that
\* is no PRICE_DROP
MarketCalls ==
  { [rule |-> MRule("r1", TRUE, scope, t, f),
     ev |-> MEvent([eventType |-> t, sku |-> sku, storeId |-> store] @@ flags),
     favs |-> favs] :
      scope \in {"all", "shortlist"}, t \in MarketTypes, f \in CommonFilters,
      sku \in MatchSkuKeys, store \in {<<"a">>, <<"b">>}, flags \in MarketFlags,
      favs \in Favourites }

PriceDropRules ==
  { MRule("r1", TRUE, scope, "PRICE_DROP",
          [storeId |-> store, acrossMarket |-> across] @@ pf) :
      scope \in {"all", "shortlist"}, store \in {Undef, Txt(<<"a">>)},
      across \in {Undef, Bool(TRUE)}, pf \in PriceFilters }
PriceDropEvents ==
  { MEvent([eventType |-> "PRICE_DROP", sku |-> sku, storeId |-> store,
            marketNew |-> flag, marketReturn |-> flag, marketOut |-> flag,
            isCheapestNow |-> Bool(cheapest)]
           @@ Field("dropAbs", dropAbs # Undef, dropAbs)
           @@ Field("dropPct", dropPct # Undef, dropPct)) :
      sku \in {<<"a">>, <<"b">>}, store \in {<<"a">>, <<"b">>}, flag \in BOOLEAN,
      cheapest \in BOOLEAN, dropAbs \in {Undef, NaNum, Num(20)},
      dropPct \in {Undef, Null, Num(25)} }
\* calls with a PRICE_DROP rule and a PRICE_DROP event
PriceDropCalls ==
  { [rule |-> r, ev |-> e, favs |-> favs] :
      r \in PriceDropRules, e \in PriceDropEvents, favs \in {{}, {<<"a">>}} }

\* calls with a disabled rule, or with an event of another type
PlainEvents ==
  { MEvent([eventType |-> t, sku |-> <<"a">>, storeId |-> <<"a">>, marketNew |-> TRUE,
            marketReturn |-> TRUE, marketOut |-> TRUE, isCheapestNow |-> Bool(TRUE),
            dropAbs |-> Num(20)]) : t \in EVENT_TYPES }
OtherCalls ==
  { [rule |-> MRule("r1", enabled, "all", t, NoFilters), ev |-> e, favs |-> {}] :
      enabled \in BOOLEAN, t \in EVENT_TYPES, e \in PlainEvents }

RuleCalls == MarketCalls \cup PriceDropCalls \cup OtherCalls

\* the rules and events whole rule lists and packs are built from
ListRules ==
  { MRule("r1", TRUE, "all", "GLOBAL_NEW", NoFilters),
    MRule("r2", TRUE, "all", "GLOBAL_NEW", [acrossMarket |-> Bool(TRUE)]),
    MRule("r3", TRUE, "all", "GLOBAL_NEW", [acrossMarket |-> Bool(FALSE)]),
    MRule("r4", FALSE, "all", "GLOBAL_NEW", NoFilters),
    MRule("r5", TRUE, "all", "PRICE_DROP",
          [acrossMarket |-> Bool(TRUE), minDropAbs |-> Num(10)]),
    MRule("r6", TRUE, "all", "OUT_OF_STOCK", [acrossMarket |-> Bool(TRUE)]),
    MRule("r7", TRUE, "all", "OUT_OF_STOCK", NoFilters) }
ListEvents ==
  { MEvent([eventType |-> "GLOBAL_NEW", id |-> <<"1">>, marketId |-> <<"m">>,
            sku |-> <<"a">>, storeId |-> <<"b">>, marketNew |-> TRUE]),
    MEvent([eventType |-> "GLOBAL_NEW", id |-> <<"2">>, marketId |-> <<"m">>,
            sku |-> <<"a">>, storeId |-> <<"a">>, marketNew |-> TRUE]),
    MEvent([eventType |-> "GLOBAL_NEW", sku |-> <<"a">>, marketNew |-> TRUE]),
    MEvent([eventType |-> "PRICE_DROP", id |-> <<"4">>, marketId |-> <<"m">>,
            sku |-> <<"1">>, storeId |-> <<"a">>, marketNew |-> TRUE,
            marketReturn |-> TRUE, marketOut |-> TRUE, oldPrice |-> Str("10.00"),
            newPrice |-> Str("8.00"), dropAbs |-> Num(20), dropPct |-> Num(25),
            isCheapestNow |-> Bool(TRUE)]),
    MEvent([eventType |-> "OUT_OF_STOCK", id |-> <<"5">>, marketId |-> <<"n">>,
            sku |-> <<"1">>, storeId |-> <<"b">>, marketOut |-> TRUE]),
    MEvent([eventType |-> "GLOBAL_NEW", id |-> <<"1">>, marketId |-> <<"m">>,
            sku |-> <<"1">>, storeId |-> <<"a">>, marketNew |-> TRUE]) }

\* the lists of at most n different members of S
ListsOf(S, n) ==
  { s \in UNION {[1..k -> S] : k \in 0..n} :
      \A i, j \in 1..Len(s) : i # j => s[i] # s[j] }
\* calls of matchEventsForUser: the rule ids of a list are unique
MatchCalls ==
  { [rules |-> rs, events |-> es, favs |-> {}] :
      rs \in ListsOf(ListRules, MaxRules), es \in ListsOf(ListEvents, MaxRows) }

\* ------------------------------------------------------------------ state
VARIABLES
  env,              \* MAIL_HOST / MAIL_PORT / MAIL_USERNAME+MAIL_PASSWORD
  req,              \* what requireEmailPackHmac and readJson see of the request
  body,             \* the JSON value of the request body
  pack,             \* the result of validateEmailEventPackV1(body)
  kvLog,            \* the reads of the store the scan has issued, oldest first
  dirSize,          \* number of keys the directory holds (the KV store)
  h_pc,             \* position of handleEmailPack
  thrown,           \* the error that left handleEmailPack (NoErr: none)
  cursor,           \* cursor local (0: undefined)
  listComplete,     \* res.list_complete of the page being iterated
  page,             \* keys of res.keys not yet iterated
  cur,              \* key and userId of the entry being evaluated
  seenUsers, scannedAccounts, matchedAccounts, jobs,
  attempted, sent, failures,
  inv,              \* inv[j]: the sendMailSmtp invocation of jobs[j]
  tracing,          \* whether wire is recorded
  wire,             \* traffic of the connection, oldest first
  mcall             \* a call of the matcher: its arguments and what it returned

vars == <<env, req, body, pack, kvLog, dirSize, h_pc, thrown, cursor, listComplete,
          page, cur, seenUsers, scannedAccounts, matchedAccounts, jobs,
          attempted, sent, failures, inv, tracing, wire, mcall>>

\* what a run reads and never writes
inputVars == <<env, req, body, dirSize>>

scanVars == <<cursor, listComplete, page, cur, seenUsers, scannedAccounts,
              matchedAccounts, jobs>>
loopVars == <<attempted, sent, failures>>

\* no call of the matcher is followed
NoCall == [fn |-> "", pc |-> "idle"]

JobSlots == 1..Cardinality(Users)
NoCur == [key |-> 0, userId |-> "", rules |-> <<>>]

Envs == [host : BOOLEAN, port : Ports, creds : BOOLEAN]

\* a request: whether EMAIL_PACK_HMAC_SECRET is set, Number(X-Spirit-Timestamp),
\* the clock (seconds) when it arrives, X-Spirit-Signature (absent or not 64
\* hex digits, well-formed but not the HMAC of ts.body, or the HMAC), and
\* whether Content-Type names application/json
Requests ==
  [secret : BOOLEAN, ts : {Num(0), NaNum, Num(1000)}, now : {699, 700, 1300, 1301},
   sig : {"malformed", "wrong", "good"}, json : BOOLEAN]
GoodRequest == [secret |-> TRUE, ts |-> Num(1000), now |-> 1300, sig |-> "good", json |-> TRUE]

\* the requests a whole run is followed for
HandlerInputs ==
  { [req |-> GoodRequest, body |-> GoodBody],
    [req |-> [GoodRequest EXCEPT !.now = 1301], body |-> GoodBody],
    [req |-> [GoodRequest EXCEPT !.sig = "wrong"], body |-> GoodBody],
    [req |-> [GoodRequest EXCEPT !.json = FALSE], body |-> GoodBody],
    [req |-> GoodRequest, body |-> Body(Num(2), Txt(<<"1">>), Obj(<<>>), Arr(<<>>))],
    [req |-> GoodRequest, body |-> Body(Num(1), Undef, Obj(<<>>), Arr(<<>>))] }

Init ==
  /\ env \in Envs
  /\ \E i \in HandlerInputs : req = i.req /\ body = i.body
  /\ pack = NoPack
  /\ kvLog = <<>>
  /\ dirSize \in 0..MaxKeys
  /\ h_pc = "hmac"
  /\ thrown = NoErr
  /\ cursor = 0
  /\ listComplete = FALSE
  /\ page = <<>>
  /\ cur = NoCur
  /\ seenUsers = {}
  /\ scannedAccounts = 0
  /\ matchedAccounts = 0
  /\ jobs = <<>>
  /\ attempted = 0
  /\ sent = 0
  /\ failures = <<>>
  /\ inv = [j \in JobSlots |-> IdleInv]
  /\ tracing = FALSE
  /\ wire = <<>>
  /\ mcall = NoCall

\* an error escapes handleEmailPack (fetch turns it into an error response)
Escapes(e) ==
  /\ h_pc' = "threw"
  /\ thrown' = e

\* ------------------------------------------- handleEmailPack: admission
Abs(n) == IF n < 0 THEN 0 - n ELSE n

\* (mutant) the age of the timestamp is not checked
requireEmailPackHmac_anyAge(r) ==
  /\ r.secret
  /\ r.ts.t = "number" /\ r.ts.v > 0
  /\ r.sig # "malformed"
  /\ r.sig = "good"

\* requireEmailPackHmac returns (TRUE) or throws 'Unauthorized' (FALSE): the
\* secret is configured, ts is a finite number above 0, |now - ts| <= 300,
\* the signature is 64 hex digits and equals the HMAC of ts.body
requireEmailPackHmac(r) ==
  /\ r.secret
  /\ r.ts.t = "number" /\ r.ts.v > 0
  /\ ~(Abs(r.now - r.ts.v) > HmacWindowSeconds)
  /\ r.sig # "malformed"
  /\ r.sig = "good"

CheckHmac ==
  /\ h_pc = "hmac"
  /\ IF requireEmailPackHmac(req)
     THEN h_pc' = "validate" /\ UNCHANGED thrown
     ELSE Escapes(Err("Unauthorized", 0))
  /\ UNCHANGED <<mcall, inputVars, pack, kvLog, scanVars, loopVars, inv, tracing, wire>>

\* readJson(req): the body, or the error it throws
readJson(r, b) ==
  IF ~r.json THEN [ok |-> FALSE, err |-> "Expected application/json"]
  ELSE IF b.t = "unparsable" THEN [ok |-> FALSE, err |-> "Unexpected token"]
  ELSE [ok |-> TRUE, err |-> ""]

\* const body = await readJson(req); const pack = validateEmailEventPackV1(body)
ValidatePack ==
  /\ h_pc = "validate"
  /\ LET j == readJson(req, body) IN
       IF ~j.ok THEN Escapes(Err(j.err, 0)) /\ UNCHANGED pack
       ELSE LET p == validateEmailEventPackV1(body) IN
              /\ pack' = p
              /\ IF p.ok THEN h_pc' = "list" /\ UNCHANGED thrown
                 ELSE Escapes(Err(p.err, 0))
  /\ UNCHANGED <<mcall, inputVars, kvLog, scanVars, loopVars, inv, tracing, wire>>

\* ------------------------------------------ handleEmailPack: the scan
\* entries of kvLog: a key the loop examines (op "key") or a read of the
\* store ("list", "get", "details", "favourites") with its result, and the
\* call of matchEventsForUser ("match")
Rd(op, key, user, ok, val) == [op |-> op, key |-> key, user |-> user, ok |-> ok, val |-> val]
Log(evs) == IF tracing THEN kvLog \o evs ELSE kvLog

\* the ways a store reports that the listing is exhausted: list_complete
\* (with or without a cursor), or no cursor
ListEnds(d) == {[complete |-> TRUE, cursor |-> 0], [complete |-> TRUE, cursor |-> d],
                [complete |-> FALSE, cursor |-> 0]}

\* await env.AUTH_KV.list({prefix, cursor, limit}): the next n keys after the
\* cursor, or an exception of the store
ScanList ==
  /\ h_pc = "list"
  /\ \/ /\ Escapes(Err("KV list failed", 0))
        /\ kvLog' = Log(<<Rd("list", cursor, "", FALSE, 0)>>)
        /\ UNCHANGED scanVars
     \/ \E n \in 0..(dirSize - cursor) :
        \E res \in IF cursor + n = dirSize THEN ListEnds(dirSize)
                   ELSE {[complete |-> FALSE, cursor |-> cursor + n]} :
          /\ (dirSize > cursor) => n >= 1
          /\ page' = [i \in 1..n |-> cursor + i]
          /\ listComplete' = res.complete
          /\ cursor' = res.cursor
          /\ kvLog' = Log(<<Rd("list", cursor, "", TRUE, res @@ [n |-> n])>>)
          /\ h_pc' = "key"
          /\ UNCHANGED <<thrown, cur, seenUsers, scannedAccounts, matchedAccounts, jobs>>
  /\ UNCHANGED <<mcall, inputVars, pack, loopVars, inv, tracing, wire>>

\* idx.userId as read from the store: "bad" (absent or no UUID), a user
\* already seen, or the next user not yet seen (users are named in the
\* order in which the scan meets them)
UserIdsRead(seen) ==
  {"bad"} \cup seen
    \cup {UserOrder[i] : i \in {n \in 1..Len(UserOrder) : n = Cardinality(seen) + 1}}

\* (mutant) the verified flag is not looked at
SkipsEntry_ignoresVerified(unverified, uid, seen) == uid = "bad" \/ uid \in seen

\* (mutant) no dedup by userId
SkipsEntry_noDedup(unverified, uid, seen) == unverified \/ uid = "bad"

\* the three "continue" of an index record: verified === false, no
\* well-formed userId, userId seen before
SkipsEntry(unverified, uid, seen) == unverified \/ uid = "bad" \/ uid \in seen

\* (mutant) the loop looks at the cursor only
ScanGoesOn_cursorOnly(complete, nextCursor) == nextCursor # 0

\* "if (res.list_complete) break; } while (cursor)"
ScanGoesOn(complete, nextCursor) == ~complete /\ nextCursor # 0

\* one iteration of "for (const k of res.keys)" up to its first await that
\* needs the user (getDetails), or the end of the page; res and cursor are
\* not read once the scan is over and are left at one value
ScanKey ==
  /\ h_pc = "key"
  /\ IF page = <<>>
     THEN IF ScanGoesOn(listComplete, cursor)
          THEN /\ h_pc' = "list"
               /\ UNCHANGED <<thrown, kvLog, scanVars>>
          ELSE /\ h_pc' = "loop"
               /\ listComplete' = TRUE
               /\ cursor' = 0
               /\ UNCHANGED <<thrown, kvLog, page, cur, seenUsers, scannedAccounts,
                              matchedAccounts, jobs>>
     ELSE \E emailOk \in BOOLEAN, kvOk \in BOOLEAN, unverified \in BOOLEAN,
             uid \in UserIdsRead(seenUsers) :
          LET k == Head(page)
              examined == Rd("key", k, "", emailOk, 0)
              read == Rd("get", k, uid, kvOk, unverified)
          IN
            IF ~emailOk
            THEN /\ page' = Tail(page)
                 /\ kvLog' = Log(<<examined>>)
                 /\ UNCHANGED <<h_pc, thrown, cursor, listComplete, cur, seenUsers,
                                scannedAccounts, matchedAccounts, jobs>>
            ELSE IF ~kvOk
            THEN /\ Escapes(Err("KV get failed", 0))
                 /\ kvLog' = Log(<<examined, read>>)
                 /\ UNCHANGED scanVars
            ELSE IF SkipsEntry(unverified, uid, seenUsers)
            THEN /\ page' = Tail(page)
                 /\ kvLog' = Log(<<examined, read>>)
                 /\ UNCHANGED <<h_pc, thrown, cursor, listComplete, cur, seenUsers,
                                scannedAccounts, matchedAccounts, jobs>>
            ELSE /\ page' = Tail(page)
                 /\ kvLog' = Log(<<examined, read>>)
                 /\ seenUsers' = seenUsers \cup {uid}
                 /\ scannedAccounts' = scannedAccounts + 1
                 /\ cur' = [NoCur EXCEPT !.key = k, !.userId = uid]
                 /\ h_pc' = "details"
                 /\ UNCHANGED <<thrown, cursor, listComplete, matchedAccounts, jobs>>
  /\ UNCHANGED <<mcall, inputVars, pack, loopVars, inv, tracing, wire>>

\* rules of a stored configuration, as far as the scan reads them
RuleOn(scope) == [enabled |-> TRUE, scope |-> scope]
RuleOff(scope) == [enabled |-> FALSE, scope |-> scope]
RuleLists ==
  { <<>>, <<RuleOff("shortlist")>>, <<RuleOn("all")>>,
    <<RuleOn("all"), RuleOff("shortlist")>>, <<RuleOn("shortlist")>>,
    <<RuleOn("all"), RuleOn("shortlist")>> }
\* details as read: valid tells whether details.emailNotifications is an
\* object of version 1 with an array of rules
DetailsRead ==
  {[valid |-> FALSE, rules |-> <<>>]} \cup {[valid |-> TRUE, rules |-> rs] : rs \in RuleLists}
IsEnabled(r) == r.enabled = TRUE
IsShortlist(r) == r.scope = "shortlist"
\* the favourites resource as read, after the filter for non-empty strings
FavsRead == {{}, {"a:1"}}
\* lengths of the list matchEventsForUser returns
MatchCounts == {0, 1}

\* (mutant) a job is pushed for every user whose rules were matched
PushJob_always(n) ==
  /\ h_pc' = "key"
  /\ cur' = NoCur
  /\ matchedAccounts' = matchedAccounts + 1
  /\ jobs' = Append(jobs, [userId |-> cur.userId, to |-> cur.key, eventCount |-> n])
  /\ UNCHANGED <<thrown, cursor, listComplete, page, seenUsers, scannedAccounts>>

\* "if (!matched.length) continue; matchedAccounts++; jobs.push(...)" for
\* a list of n matched events
PushJob(n) ==
  /\ h_pc' = "key"
  /\ cur' = NoCur
  /\ IF n > 0
     THEN /\ matchedAccounts' = matchedAccounts + 1
          /\ jobs' = Append(jobs, [userId |-> cur.userId, to |-> cur.key, eventCount |-> n])
     ELSE UNCHANGED <<matchedAccounts, jobs>>
  /\ UNCHANGED <<thrown, cursor, listComplete, page, seenUsers, scannedAccounts>>

\* matchEventsForUser(pack, rules, favs) and what follows it
MatchAndPush(rules, favs, reads) ==
  \E n \in MatchCounts :
    /\ kvLog' = Log(reads \o <<Rd("match", cur.key, cur.userId, TRUE,
                                   [rules |-> rules, favs |-> favs, n |-> n])>>)
    /\ PushJob(n)

\* (mutant) the favourites are read for every user with enabled rules
needsShortlist_always(rules) == TRUE

\* rules.some(r => r.scope === "shortlist")
needsShortlist(rules) == \E i \in 1..Len(rules) : IsShortlist(rules[i])

\* await getDetails(env, userId), then the rule checks
ScanDetails ==
  /\ h_pc = "details"
  /\ \E kvOk \in BOOLEAN, details \in DetailsRead :
       LET read == Rd("details", cur.key, cur.userId, kvOk, details)
           rules == SelectSeq(details.rules, IsEnabled)
       IN
       IF ~kvOk
       THEN /\ Escapes(Err("KV get failed", 0))
            /\ kvLog' = Log(<<read>>)
            /\ UNCHANGED scanVars
       ELSE IF ~details.valid \/ rules = <<>>
       THEN /\ h_pc' = "key"
            /\ cur' = NoCur
            /\ kvLog' = Log(<<read>>)
            /\ UNCHANGED <<thrown, cursor, listComplete, page, seenUsers,
                           scannedAccounts, matchedAccounts, jobs>>
       ELSE IF needsShortlist(rules)
       THEN /\ h_pc' = "favs"
            /\ cur' = [cur EXCEPT !.rules = rules]
            /\ kvLog' = Log(<<read>>)
            /\ UNCHANGED <<thrown, cursor, listComplete, page, seenUsers,
                           scannedAccounts, matchedAccounts, jobs>>
       ELSE MatchAndPush(rules, {}, <<read>>)
  /\ UNCHANGED <<mcall, inputVars, pack, loopVars, inv, tracing, wire>>

\* await getAccountResource(env, userId, "favourites"), then the match
ScanFavs ==
  /\ h_pc = "favs"
  /\ \E kvOk \in BOOLEAN, favs \in FavsRead :
       LET read == Rd("favourites", cur.key, cur.userId, kvOk, favs) IN
       IF ~kvOk
       THEN /\ Escapes(Err("KV get failed", 0))
            /\ kvLog' = Log(<<read>>)
            /\ UNCHANGED scanVars
       ELSE MatchAndPush(cur.rules, favs, <<read>>)
  /\ UNCHANGED <<mcall, inputVars, pack, loopVars, inv, tracing, wire>>


\* ------------------------------------ handleEmailPack: the delivery loop
\* entries of wire
Ev(d, w, n, ls, t) == [dir |-> d, what |-> w, code |-> n, lines |-> ls, tls |-> t]
Trace(evs) == IF tracing THEN wire \o evs ELSE wire

\* the checks of sendMailSmtp that precede connect()
ConfigError(e) ==
  IF ~e.host THEN Err("MAIL_HOST not configured", 0)
  ELSE IF e.port <= 0 THEN Err("MAIL_PORT not configured", 0)
  ELSE IF ~e.creds THEN Err("MAIL_USERNAME/MAIL_PASSWORD not configured", 0)
  ELSE NoErr

\* secureTransport: 'on' for port 465, 'starttls' otherwise
ImplicitTls(e) == e.port = ImplicitTlsPort

\* connect() and new SmtpClient(socket), up to the await of the greeting
Connected(c, e) ==
  [c EXCEPT !.pc = "banner", !.open = TRUE, !.tls = ImplicitTls(e),
            !.isEncrypted = ImplicitTls(e), !.caps = {}, !.r = 0,
            !.conns = @ + 1]

\* (mutant) the failure keeps the message without the number it carried
Failure_withoutCode(j, e) == [to |-> jobs[j].to, error |-> Err(e.msg, 0)]

\* catch (e) { failures.push({to, error}) }
Failure(j, e) == [to |-> jobs[j].to, error |-> e]

\* "for (const job of jobs)": attempted++, buildEmailAlert, the call of
\* sendMailSmtp up to its first await, withTimeout arming the timer
StartJob ==
  /\ h_pc = "loop"
  /\ attempted < Len(jobs)
  /\ attempted' = attempted + 1
  /\ LET j == attempted + 1 IN
     \E renderOk \in BOOLEAN :
       IF ~renderOk
       THEN /\ failures' = Append(failures, Failure(j, Err("render failed", 0)))
            /\ UNCHANGED <<h_pc, inv, wire>>
       ELSE IF ConfigError(env) # NoErr
       THEN /\ failures' = Append(failures, Failure(j, ConfigError(env)))
            /\ UNCHANGED <<h_pc, inv, wire>>
       ELSE /\ inv' = [inv EXCEPT ![j] = Connected(@, env)]
            /\ wire' = Trace(<<Ev("X", "CONNECT", 0, {}, ImplicitTls(env))>>)
            /\ h_pc' = "await"
            /\ UNCHANGED failures
  /\ UNCHANGED <<mcall, inputVars, pack, kvLog, thrown, scanVars, sent, tracing>>

\* the promise of invocation j settles: if handleEmailPack still awaits it
\* (the race is undecided) the iteration ends with sent++ or a failure;
\* after a timeout the race is decided and the outcome is dropped
Settle(j, a) ==
  IF h_pc = "await" /\ attempted = j
  THEN /\ h_pc' = "loop"
       /\ IF a.fin = "ok"
          THEN sent' = sent + 1 /\ UNCHANGED failures
          ELSE failures' = Append(failures, Failure(j, a.err)) /\ UNCHANGED sent
  ELSE UNCHANGED <<h_pc, sent, failures>>

\* the inputs of a reply that the code reads: the lines of an EHLO reply
\* whose code is accepted, and the outcome of the write that follows an
\* accepted reply
ReplyLines(pc, code) ==
  IF pc \in {"ehlo", "ehlo2"} /\ code \in Expected(pc) THEN EhloReplies ELSE {{}}
WriteOutcomes(pc, code) ==
  IF pc # "quit" /\ code \in Expected(pc) THEN BOOLEAN ELSE {TRUE}

\* the peer answers the command invocation j waits on
SmtpReply(j) ==
  /\ inv[j].pc \in WaitPcs
  /\ \E code \in Codes :
     \E lines \in ReplyLines(inv[j].pc, code), wok \in WriteOutcomes(inv[j].pc, code) :
       LET c == inv[j]
           a == OnReply(c, code, lines, wok)
           reply == <<Ev("S", "REPLY", code, lines, c.tls)>>
           upgrade == IF a.c.tls /\ ~c.tls
                      THEN <<Ev("X", "TLS", 0, {}, TRUE)>> ELSE <<>>
           \* a command whose write was rejected
           lost == IF a.fin # "run" /\ a.c.pc # c.pc
                   THEN <<Ev("W", CmdOf(a.c.pc), 0, {}, a.c.tls)>> ELSE <<>>
       IN  IF a.fin = "run"
           THEN /\ inv' = [inv EXCEPT ![j] = a.c]
                /\ wire' = Trace(reply \o upgrade
                                 \o <<Ev("C", CmdOf(a.c.pc), 0, {}, a.c.tls)>>)
                /\ UNCHANGED <<h_pc, sent, failures>>
           ELSE /\ inv' = [inv EXCEPT ![j] = Closed(a.c)]
                /\ wire' = Trace(reply \o upgrade \o lost
                                 \o <<Ev("X", "CLOSE", 0, {}, a.c.tls)>>)
                /\ Settle(j, a)
  /\ UNCHANGED <<mcall, inputVars, pack, kvLog, thrown, scanVars, attempted, tracing>>

\* the peer closes the connection while invocation j waits for a reply
SmtpPeerClose(j) ==
  /\ inv[j].pc \in WaitPcs
  /\ LET a == OnPeerClose(inv[j]) IN
       /\ inv' = [inv EXCEPT ![j] = Closed(a.c)]
       /\ wire' = Trace(<<Ev("S", "EOF", 0, {}, a.c.tls),
                          Ev("X", "CLOSE", 0, {}, a.c.tls)>>)
       /\ Settle(j, a)
  /\ UNCHANGED <<mcall, inputVars, pack, kvLog, thrown, scanVars, attempted, tracing>>

\* (mutant) the timeout is not caught per job: it ends the run
TimerFire_aborts ==
  /\ h_pc = "await"
  /\ h_pc' = "threw"
  /\ UNCHANGED <<mcall, inputVars, pack, kvLog, thrown, scanVars, loopVars, inv, tracing, wire>>

\* withTimeout: the timer fires before sendMailSmtp settled; the race
\* rejects, the invocation itself is left running
TimerFire ==
  /\ h_pc = "await"
  /\ failures' = Append(failures,
        Failure(attempted, Err("sendMailSmtp(email pack) timed out", STEP_MS)))
  /\ h_pc' = "loop"
  /\ UNCHANGED <<mcall, inputVars, pack, kvLog, thrown, scanVars, attempted, sent, inv, tracing, wire>>

\* (mutant) failed counts the failures that are listed
Report_countsListed ==
  LET listed == SubSeq(failures, 1,
                       IF Len(failures) < FailureCap THEN Len(failures) ELSE FailureCap)
  IN [scannedAccounts |-> scannedAccounts,
      matchedAccounts |-> matchedAccounts,
      accounts |-> jobs,
      email |-> [attempted |-> attempted, sent |-> sent, failed |-> Len(listed)],
      failures |-> listed]

\* the response body built after the loop
Report ==
  [scannedAccounts |-> scannedAccounts,
   matchedAccounts |-> matchedAccounts,
   accounts |-> jobs,
   email |-> [attempted |-> attempted, sent |-> sent, failed |-> Len(failures)],
   failures |-> SubSeq(failures, 1,
                       IF Len(failures) < FailureCap THEN Len(failures) ELSE FailureCap)]

SendReport ==
  /\ h_pc = "loop"
  /\ attempted = Len(jobs)
  /\ h_pc' = "done"
  /\ UNCHANGED <<mcall, inputVars, pack, kvLog, thrown, scanVars, loopVars, inv, tracing, wire>>

\* ---------------------------------------------------------- specifications
HandlerStep == StartJob \/ TimerFire \/ SendReport

Next ==
  \/ CheckHmac
  \/ ValidatePack
  \/ ScanList
  \/ ScanKey
  \/ ScanDetails
  \/ ScanFavs
  \/ StartJob
  \/ \E j \in JobSlots : SmtpReply(j)
  \/ \E j \in JobSlots : SmtpPeerClose(j)
  \/ TimerFire
  \/ SendReport

Spec == Init /\ [][Next]_vars

\* timers fire and the handler's own continuations run; the peer of an SMTP
\* connection owes nothing
FairSpec == Spec /\ WF_vars(HandlerStep)

\* one delivery attempt on its own: handleEmailPack holds a single job and
\* awaits sendMailSmtp without a timer; the traffic is recorded in wire
SmtpInit ==
  /\ env \in Envs
  /\ req = GoodRequest
  /\ body = GoodBody
  /\ pack = validateEmailEventPackV1(GoodBody)
  /\ kvLog = <<>>
  /\ dirSize = 1
  /\ h_pc = "loop"
  /\ thrown = NoErr
  /\ cursor = 0
  /\ listComplete = TRUE
  /\ page = <<>>
  /\ cur = NoCur
  /\ seenUsers = {"u1"}
  /\ scannedAccounts = 1
  /\ matchedAccounts = 1
  /\ jobs = <<[userId |-> "u1", to |-> 1, eventCount |-> 1]>>
  /\ attempted = 0
  /\ sent = 0
  /\ failures = <<>>
  /\ inv = [j \in JobSlots |-> IdleInv]
  /\ tracing = TRUE
  /\ wire = <<>>
  /\ mcall = NoCall

SmtpNext ==
  \/ StartJob
  \/ \E j \in JobSlots : SmtpReply(j)
  \/ \E j \in JobSlots : SmtpPeerClose(j)
  \/ SendReport

SmtpSpec == SmtpInit /\ [][SmtpNext]_vars

FairSmtpSpec == SmtpSpec /\ WF_vars(StartJob \/ SendReport)

\* the admission and the scan on their own, with the reads recorded in kvLog
MailEnv == [host |-> TRUE, port |-> 587, creds |-> TRUE]
ScanInit ==
  /\ env = MailEnv
  /\ req = GoodRequest
  /\ body = GoodBody
  /\ pack = NoPack
  /\ kvLog = <<>>
  /\ dirSize \in 0..MaxKeys
  /\ h_pc = "hmac"
  /\ thrown = NoErr
  /\ cursor = 0
  /\ listComplete = FALSE
  /\ page = <<>>
  /\ cur = NoCur
  /\ seenUsers = {}
  /\ scannedAccounts = 0
  /\ matchedAccounts = 0
  /\ jobs = <<>>
  /\ attempted = 0
  /\ sent = 0
  /\ failures = <<>>
  /\ inv = [j \in JobSlots |-> IdleInv]
  /\ tracing = TRUE
  /\ wire = <<>>
  /\ mcall = NoCall

ScanNext ==
  \/ CheckHmac
  \/ ValidatePack
  \/ ScanList
  \/ ScanKey
  \/ ScanDetails
  \/ ScanFavs

ScanSpec == ScanInit /\ [][ScanNext]_vars

\* the store answers every read, and the handler's continuations run
FairScanSpec == ScanSpec /\ WF_vars(ScanNext)

\* the validator on its own: a request that passed the HMAC check, with any
\* of the bodies
PackInit ==
  /\ env = MailEnv
  /\ req = GoodRequest
  /\ body \in Bodies
  /\ pack = NoPack
  /\ kvLog = <<>>
  /\ dirSize = 0
  /\ h_pc = "validate"
  /\ thrown = NoErr
  /\ cursor = 0
  /\ listComplete = FALSE
  /\ page = <<>>
  /\ cur = NoCur
  /\ seenUsers = {}
  /\ scannedAccounts = 0
  /\ matchedAccounts = 0
  /\ jobs = <<>>
  /\ attempted = 0
  /\ sent = 0
  /\ failures = <<>>
  /\ inv = [j \in JobSlots |-> IdleInv]
  /\ tracing = TRUE
  /\ wire = <<>>
  /\ mcall = NoCall

PackSpec == PackInit /\ [][ValidatePack]_vars

\* whole runs for every request and every shape of the body's top level,
\* over a directory of at most one key, with kvLog and wire recorded
AdmitBodies ==
  BadTopBodies \cup
    {GoodBody, Body(Num(1), Txt(<<"1">>), Obj(<<Sku_badKey>>), Arr(<<>>))}
AdmitInit ==
  /\ env = MailEnv
  /\ req \in Requests
  /\ body \in AdmitBodies
  /\ pack = NoPack
  /\ kvLog = <<>>
  /\ dirSize \in 0..1
  /\ h_pc = "hmac"
  /\ thrown = NoErr
  /\ cursor = 0
  /\ listComplete = FALSE
  /\ page = <<>>
  /\ cur = NoCur
  /\ seenUsers = {}
  /\ scannedAccounts = 0
  /\ matchedAccounts = 0
  /\ jobs = <<>>
  /\ attempted = 0
  /\ sent = 0
  /\ failures = <<>>
  /\ inv = [j \in JobSlots |-> IdleInv]
  /\ tracing = TRUE
  /\ wire = <<>>
  /\ mcall = NoCall

AdmitSpec == AdmitInit /\ [][Next]_vars

\* the late part of a delivery loop over a long job list: no mail server is
\* configured, so every job so far has failed before connecting
UserName(i) == IF i <= Len(UserOrder) THEN UserOrder[i] ELSE ToString(i)
LongLoopInit ==
  /\ env \in {e \in Envs : ConfigError(e) # NoErr}
  /\ req = GoodRequest
  /\ body = GoodBody
  /\ pack = validateEmailEventPackV1(GoodBody)
  /\ kvLog = <<>>
  /\ \E n \in 0..MaxJobs, k \in 0..MaxJobs :
       /\ k <= n
       /\ n - k <= 2
       /\ dirSize = n
       /\ seenUsers = {UserName(i) : i \in 1..n}
       /\ scannedAccounts = n
       /\ matchedAccounts = n
       /\ jobs = [i \in 1..n |-> [userId |-> UserName(i), to |-> i, eventCount |-> 1]]
       /\ attempted = k
       /\ failures = [i \in 1..k |-> [to |-> i, error |-> ConfigError(env)]]
  /\ h_pc = "loop"
  /\ thrown = NoErr
  /\ cursor = 0
  /\ listComplete = TRUE
  /\ page = <<>>
  /\ cur = NoCur
  /\ sent = 0
  /\ inv = [j \in JobSlots |-> IdleInv]
  /\ tracing = FALSE
  /\ wire = <<>>
  /\ mcall = NoCall

\* whole runs, and the late part of runs over long job lists
ReportSpec == (Init \/ LongLoopInit) /\ [][Next]_vars

\* what a call of the matcher leaves alone
handlerVars ==
  <<inputVars, pack, kvLog, h_pc, thrown, scanVars, loopVars, inv, tracing, wire>>
Quiet ==
  /\ env = MailEnv /\ req = GoodRequest /\ body = GoodBody /\ dirSize = 0
  /\ kvLog = <<>> /\ h_pc = "done" /\ thrown = NoErr
  /\ cursor = 0 /\ listComplete = TRUE /\ page = <<>> /\ cur = NoCur
  /\ seenUsers = {} /\ scannedAccounts = 0 /\ matchedAccounts = 0 /\ jobs = <<>>
  /\ attempted = 0 /\ sent = 0 /\ failures = <<>>
  /\ inv = [j \in JobSlots |-> IdleInv] /\ tracing = FALSE /\ wire = <<>>

\* one call ruleMatchesEvent(pack, rule, ev, favs)
RuleInit ==
  /\ Quiet
  /\ pack = MPack(MatchSkus, <<>>)
  /\ \E c \in RuleCalls :
       mcall = [fn |-> "ruleMatchesEvent", pc |-> "call", rule |-> c.rule, ev |-> c.ev,
                favs |-> c.favs, ret |-> FALSE]
RuleMatches ==
  /\ mcall.fn = "ruleMatchesEvent" /\ mcall.pc = "call"
  /\ mcall' = [mcall EXCEPT !.pc = "ret",
                            !.ret = ruleMatchesEvent(pack, mcall.rule, mcall.ev, mcall.favs)]
  /\ UNCHANGED handlerVars
RuleSpec == RuleInit /\ [][RuleMatches]_vars

\* one call matchEventsForUser(pack, rules, favs)
MatchInit ==
  /\ Quiet
  /\ \E c \in MatchCalls :
       /\ pack = MPack(MatchSkus, c.events)
       /\ mcall = [fn |-> "matchEventsForUser", pc |-> "call", rules |-> c.rules,
                   favs |-> c.favs, byId |-> <<>>, byMarket |-> <<>>, out |-> <<>>]
MatchEvents ==
  /\ mcall.fn = "matchEventsForUser" /\ mcall.pc = "call"
  /\ LET r == matchEventsForUser(pack, mcall.rules, mcall.favs) IN
       mcall' = [mcall EXCEPT !.pc = "ret", !.byId = r.byId, !.byMarket = r.byMarket,
                              !.out = r.out]
  /\ UNCHANGED handlerVars
MatchSpec == MatchInit /\ [][MatchEvents]_vars


\* two calls matchEventsForUser(pack, rules, favs) with the same arguments;
\* each call's sort is free to return any list the engine may produce
TwiceRules == {r \in ListRules : r.id \in {"r1", "r3", "r6", "r7"}}
TwiceCalls ==
  { [rules |-> rs, events |-> es, favs |-> {}] :
      rs \in ListsOf(TwiceRules, MaxRules), es \in ListsOf(ListEvents, MaxRows) }
NoResult == [byId |-> <<>>, byMarket |-> <<>>, out |-> <<>>]
TwiceInit ==
  /\ Quiet
  /\ \E c \in TwiceCalls :
       /\ pack = MPack(MatchSkus, c.events)
       /\ mcall = [fn |-> "matchEventsForUser twice", pc |-> "call", rules |-> c.rules,
                   favs |-> c.favs, first |-> NoResult, second |-> NoResult]
\* the maps of one call and a list its sort may return
Outcomes(p, rules, favs) ==
  LET st == ForRules(p, rules, favs, NoMaps) IN
    { [byId |-> st.byId, byMarket |-> st.byMarket, out |-> o] :
        o \in SortOutcomes(marketOnly(st) \o Values(st.byId)) }
MatchFirst ==
  /\ mcall.fn = "matchEventsForUser twice" /\ mcall.pc = "call"
  /\ \E r \in Outcomes(pack, mcall.rules, mcall.favs) :
       mcall' = [mcall EXCEPT !.pc = "once", !.first = r]
  /\ UNCHANGED handlerVars
MatchSecond ==
  /\ mcall.fn = "matchEventsForUser twice" /\ mcall.pc = "once"
  /\ \E r \in Outcomes(pack, mcall.rules, mcall.favs) :
       mcall' = [mcall EXCEPT !.pc = "ret", !.second = r]
  /\ UNCHANGED handlerVars
TwiceSpec == TwiceInit /\ [][MatchFirst \/ MatchSecond]_vars


\* the event a matched entry was built from: the fields MatchedOf copied
EventOf(x) ==
  LET given == {n \in {"oldPrice", "newPrice", "dropAbs", "dropPct"} : x[n] # Undef} IN
    MEvent([n \in given |-> x[n]]
           @@ (IF x.isCheapestNow THEN [isCheapestNow |-> Bool(TRUE)] ELSE <<>>)
           @@ [eventType |-> x.eventType, id |-> x.eventId, marketId |-> x.marketId,
               sku |-> x.sku, storeId |-> x.storeId, storeLabel |-> x.storeLabel,
               listingUrl |-> x.listingUrl, marketNew |-> x.marketNew,
               marketReturn |-> x.marketReturn, marketOut |-> x.marketOut])
EventsOf(list) == [i \in 1..Len(list) |-> EventOf(list[i])]

\* a call matchEventsForUser(pack, rules, favs), and a second call with the
\* same rules on the events of the list the first one returned
AgainRules ==
  {r \in ListRules : r.id \in {"r1", "r3", "r5"}}
    \cup {MRule("r8", TRUE, "all", "GLOBAL_NEW",
                [storeId |-> Txt(<<"a">>), acrossMarket |-> Bool(TRUE)])}
AgainCalls ==
  { [rules |-> rs, events |-> es, favs |-> {}] :
      rs \in ListsOf(AgainRules, MaxRules), es \in ListsOf(ListEvents, MaxRows) }
AgainInit ==
  /\ Quiet
  /\ \E c \in AgainCalls :
       /\ pack = MPack(MatchSkus, c.events)
       /\ mcall = [fn |-> "matchEventsForUser again", pc |-> "call", rules |-> c.rules,
                   favs |-> c.favs, first |-> NoResult, second |-> NoResult]
MatchOnce ==
  /\ mcall.fn = "matchEventsForUser again" /\ mcall.pc = "call"
  /\ mcall' = [mcall EXCEPT !.pc = "once",
                            !.first = matchEventsForUser(pack, mcall.rules, mcall.favs)]
  /\ UNCHANGED handlerVars
MatchAgain ==
  /\ mcall.fn = "matchEventsForUser again" /\ mcall.pc = "once"
  /\ mcall' = [mcall EXCEPT
                 !.pc = "ret",
                 !.second = matchEventsForUser(
                              [pack EXCEPT !.events = EventsOf(mcall.first.out)],
                              mcall.rules, mcall.favs)]
  /\ UNCHANGED handlerVars
AgainSpec == AgainInit /\ [][MatchOnce \/ MatchAgain]_vars


\* ------------------------------------ smtp.ts: SmtpClient.readResponse
\* The decoded text is a sequence of characters; "CR" and "LF" stand for
\* the carriage return and the line feed.
Digits == {"0", "2", "5"}
DigitValue(d) == CASE d = "0" -> 0 [] d = "2" -> 2 [] OTHER -> 5

\* bufText.indexOf('\n') + 1 (0: no line feed)
IndexOfLF(s) ==
  IF \E i \in 1..Len(s) : s[i] = "LF"
  THEN CHOOSE i \in 1..Len(s) : s[i] = "LF" /\ \A k \in 1..(i - 1) : s[k] # "LF"
  ELSE 0

\* line.replace(/\r?\n$/, '') on text that ends with a line feed
StripEol(l) ==
  IF Len(l) >= 2 /\ l[Len(l) - 1] = "CR"
  THEN SubSeq(l, 1, Len(l) - 2) ELSE SubSeq(l, 1, Len(l) - 1)

\* line.match(/^(\d{3})([ -])(.*)$/): "." matches no line terminator
LineMatch(line) ==
  /\ Len(line) >= 4
  /\ \A i \in 1..3 : line[i] \in Digits
  /\ line[4] \in {" ", "-"}
  /\ \A i \in 5..Len(line) : line[i] \notin {"CR", "LF"}
\* Number(m[1])
CodeOf(line) ==
  100 * DigitValue(line[1]) + 10 * DigitValue(line[2]) + DigitValue(line[3])

\* (mutant) the first line that carries a code ends the reply
IsLastLine_always(line) == TRUE

\* "if (sep === ' ') break; // final line"
IsLastLine(line) == line[4] = " "

\* the loop of readResponse on the text buffered so far, up to its return
\* (done) or to the next await of reader.read(); c holds bufText and the
\* locals lines and code
RECURSIVE RunResponse(_)
RunResponse(c) ==
  LET idx == IndexOfLF(c.bufText) IN
    IF idx = 0 THEN [c |-> c, done |-> FALSE]
    ELSE LET line == StripEol(SubSeq(c.bufText, 1, idx))
             c1 == [c EXCEPT !.bufText = SubSeq(@, idx + 1, Len(@)),
                             !.lines = Append(@, line)]
         IN IF ~LineMatch(line) THEN RunResponse(c1)
            ELSE IF IsLastLine(line)
                 THEN [c |-> [c1 EXCEPT !.code = CodeOf(line)], done |-> TRUE]
                 ELSE RunResponse([c1 EXCEPT !.code = CodeOf(line)])

\* the lines a peer may send, with their line ends
ReplyTexts ==
  { <<"2", "5", "0", "-", "x", "CR", "LF">>,
    <<"2", "5", "0", " ", "x", "CR", "LF">>,
    <<"5", "5", "0", " ", "CR", "LF">>,
    <<"2", "2", "0", " ", "x", "LF">>,
    <<"2", "5", "0", "CR", "LF">>,
    <<"x", "CR", "LF">>,
    <<"2", "5", "0", " ", "CR", "CR", "LF">> }
RECURSIVE Flat(_)
Flat(ss) == IF ss = <<>> THEN <<>> ELSE Head(ss) \o Flat(Tail(ss))
Streams == {Flat(ss) : ss \in UNION {[1..k -> ReplyTexts] : k \in 0..MaxLines}}

\* calls of readResponse on one connection whose peer sends stream; rest is
\* what the socket has not delivered yet, results the values returned
RespInit ==
  /\ Quiet
  /\ pack = NoPack
  /\ \E s \in Streams :
       mcall = [fn |-> "readResponse", pc |-> "idle", stream |-> s, rest |-> s,
                bufText |-> <<>>, lines |-> <<>>, code |-> 0, results |-> <<>>]
\* the buffer and the locals after the loop ran on them
Ran(c) ==
  LET a == RunResponse([bufText |-> c.bufText, lines |-> c.lines, code |-> c.code]) IN
    IF a.done
    THEN [c EXCEPT !.pc = "idle", !.bufText = a.c.bufText, !.lines = <<>>, !.code = 0,
                   !.results = Append(@, [code |-> a.c.code, lines |-> a.c.lines])]
    ELSE [c EXCEPT !.pc = "read", !.bufText = a.c.bufText, !.lines = a.c.lines,
                   !.code = a.c.code]
\* readResponse is called: it runs on what the buffer holds
ReadCall ==
  /\ mcall.fn = "readResponse" /\ mcall.pc = "idle"
  /\ mcall' = Ran(mcall)
  /\ UNCHANGED handlerVars
\* reader.read() delivers the next bytes, however many the socket read holds
ReaderRead ==
  /\ mcall.fn = "readResponse" /\ mcall.pc = "read"
  /\ \E n \in 1..Len(mcall.rest) :
       mcall' = Ran([mcall EXCEPT !.bufText = @ \o SubSeq(mcall.rest, 1, n),
                                  !.rest = SubSeq(@, n + 1, Len(@))])
  /\ UNCHANGED handlerVars
\* reader.read() reports the end of the stream: 'SMTP connection closed'
ReaderDone ==
  /\ mcall.fn = "readResponse" /\ mcall.pc = "read"
  /\ mcall.rest = <<>>
  /\ mcall' = [mcall EXCEPT !.pc = "threw"]
  /\ UNCHANGED handlerVars
RespSpec == RespInit /\ [][ReadCall \/ ReaderRead \/ ReaderDone]_vars


\* ----------------------------------------- smtp.ts: the DATA payload
\* Text is a sequence of characters, "CR" and "LF" among them; the fixed
\* text of a header is one element.
CRLF == <<"CR", "LF">>
RECURSIVE ReplaceCRLF(_)
\* .replace(/\r\n/g, '\n')
ReplaceCRLF(s) ==
  IF s = <<>> THEN <<>>
  ELSE IF Len(s) >= 2 /\ s[1] = "CR" /\ s[2] = "LF"
       THEN <<"LF">> \o ReplaceCRLF(SubSeq(s, 3, Len(s)))
       ELSE <<Head(s)>> \o ReplaceCRLF(Tail(s))
\* .replace(/\r/g, '\n')
ReplaceCR(s) == [i \in 1..Len(s) |-> IF s[i] = "CR" THEN "LF" ELSE s[i]]
RECURSIVE SplitLF(_)
\* .split('\n')
SplitLF(s) ==
  LET idx == IndexOfLF(s) IN
    IF idx = 0 THEN <<s>>
    ELSE <<SubSeq(s, 1, idx - 1)>> \o SplitLF(SubSeq(s, idx + 1, Len(s)))

\* line.startsWith('.') ? '.' + line : line
Stuffed(line) == IF line # <<>> /\ line[1] = "." THEN <<".">> \o line ELSE line

RECURSIVE JoinCRLF(_)
\* .join('\r\n')
JoinCRLF(lines) ==
  IF Len(lines) = 1 THEN lines[1] ELSE lines[1] \o CRLF \o JoinCRLF(Tail(lines))
dotStuff(text) ==
  LET lines == SplitLF(ReplaceCR(ReplaceCRLF(text))) IN
    JoinCRLF([i \in 1..Len(lines) |-> Stuffed(lines[i])])

\* String.prototype.trim: white space and line terminators go
RECURSIVE TrimWs(_)
TrimWs(s) ==
  IF s # <<>> /\ Head(s) \in {" ", "CR", "LF"} THEN TrimWs(Tail(s))
  ELSE IF s # <<>> /\ s[Len(s)] \in {" ", "CR", "LF"} THEN TrimWs(SubSeq(s, 1, Len(s) - 1))
  ELSE s
\* String(mail.subject || '').replace(/\r|\n/g, ' ').trim()
SubjectOf(s) == TrimWs([i \in 1..Len(s) |-> IF s[i] \in {"CR", "LF"} THEN " " ELSE s[i]])
\* "if (!to || !to.includes('@')) throw new Error('Invalid recipient')"
ValidRecipient(to) == to # <<>> /\ \E i \in 1..Len(to) : to[i] = "@"

\* "const data = `From: ...` + ... + `${bodyText}\r\n` + `\r\n.\r\n`"
DataOf(to, subject, text) ==
  <<"From: Spirit Tracker <spirit@codexwilkes.com>">> \o CRLF
  \o <<"To: ">> \o to \o CRLF
  \o <<"Subject: ">> \o SubjectOf(subject) \o CRLF
  \o <<"Date: ">> \o CRLF
  \o <<"Message-ID: ">> \o CRLF
  \o <<"MIME-Version: 1.0">> \o CRLF
  \o <<"Content-Type: text/plain; charset=utf-8">> \o CRLF
  \o <<"Content-Transfer-Encoding: 8bit">> \o CRLF
  \o CRLF
  \o dotStuff(text) \o CRLF
  \o CRLF \o <<".">> \o CRLF

\* mail.to as the callers pass it (an address the account validator let
\* through: trimmed and holding an "@"), mail.subject and mail.text
Recipients ==
  { <<"a", "@", "b">>, <<"a", "@", "b", "CR", "LF", ".", "CR", "LF", "x">> }
Subjects == { <<"x">>, <<"x", "CR", "LF", ".", "CR", "LF">> }
BodyTexts == UNION {[1..k -> {".", "x", "CR", "LF"}] : k \in 0..MaxBody}
\* sendMailSmtp at "await client.sendRaw(data)", after DATA was answered 354
DataInit ==
  /\ Quiet
  /\ pack = NoPack
  /\ \E to \in Recipients, subject \in Subjects, text \in BodyTexts :
       mcall = [fn |-> "sendRaw", pc |-> "call", to |-> TrimWs(to), subject |-> subject,
                text |-> text, data |-> <<>>]
WriteData ==
  /\ mcall.fn = "sendRaw" /\ mcall.pc = "call"
  /\ ValidRecipient(mcall.to)
  /\ mcall' = [mcall EXCEPT !.pc = "ret",
                            !.data = DataOf(mcall.to, mcall.subject, mcall.text)]
  /\ UNCHANGED handlerVars
DataSpec == DataInit /\ [][WriteData]_vars


\* ------------------------------------------------------------ validateDetails
\* A rule as the client sends it: uuid 0 is an id UUID_RE does not match, pad
\* says the id is written with blanks around it, ok is the verdict of the
\* checks on enabled, scope, eventType and filters, tag the rest of the rule
RawRule(uuid, pad, ok, tag) == [uuid |-> uuid, pad |-> pad, ok |-> ok, tag |-> tag]

\* validateEmailRuleV1(x): the stored rule, or the error it throws
validateEmailRuleV1(x) ==
  IF x.uuid = 0
  THEN [ok |-> FALSE, err |-> "emailNotifications.rules[].id must be uuid", v |-> <<>>]
  ELSE IF ~x.ok
  THEN [ok |-> FALSE, err |-> "emailNotifications.rules[] invalid", v |-> <<>>]
  ELSE [ok |-> TRUE, err |-> "", v |-> [id |-> x.uuid, tag |-> x.tag]]

\* rulesIn.slice(0, MAX_RULES)
FirstRules_all(rulesIn) == rulesIn
FirstRules(rulesIn) == Take(rulesIn, MAX_RULES)

\* the loop over the sliced rules: seen holds the ids pushed so far
RECURSIVE RulesLoop(_, _, _)
RulesLoop(in, seen, rules) ==
  IF in = <<>> THEN [ok |-> TRUE, err |-> "", rules |-> rules]
  ELSE LET rr == validateEmailRuleV1(Head(in)) IN
       IF ~rr.ok THEN [ok |-> FALSE, err |-> rr.err, rules |-> <<>>]
       ELSE IF rr.v.id \in seen THEN RulesLoop(Tail(in), seen, rules)
       ELSE RulesLoop(Tail(in), seen \cup {rr.v.id}, Append(rules, rr.v))

\* validateEmailNotificationsV1(v)
validateEmailNotificationsV1(v) ==
  IF ~IsPlainObject(v)
  THEN [ok |-> FALSE, err |-> "details.emailNotifications must be an object", rules |-> <<>>]
  ELSE IF ~("version" \in DOMAIN v.v /\ v.v["version"] = Num(1))
  THEN [ok |-> FALSE, err |-> "details.emailNotifications.version must be 1", rules |-> <<>>]
  ELSE IF ~("rules" \in DOMAIN v.v /\ v.v["rules"].t = "array")
  THEN [ok |-> FALSE, err |-> "details.emailNotifications.rules must be an array", rules |-> <<>>]
  ELSE RulesLoop(FirstRules(v.v["rules"].v), {}, <<>>)

\* the keys of f other than k
Without(f, k) == [x \in DOMAIN f \ {k} |-> f[x]]
Refused(msg) == [ok |-> FALSE, err |-> msg, details |-> Absent]

\* the emailNotifications step of validateDetails
DetailsRules(b) ==
  IF "emailNotifications" \notin DOMAIN b THEN [ok |-> TRUE, err |-> "", details |-> b]
  ELSE IF b["emailNotifications"].t \in {"undefined", "null"}
  THEN [ok |-> TRUE, err |-> "", details |-> Without(b, "emailNotifications")]
  ELSE LET en == validateEmailNotificationsV1(b["emailNotifications"]) IN
       IF ~en.ok THEN Refused(en.err)
       ELSE [ok |-> TRUE, err |-> "",
             details |-> [b EXCEPT !["emailNotifications"] =
                            Obj([version |-> Num(1), rules |-> Arr(en.rules)])]]

\* validateDetails(body): the stored document, or the error it throws; the
\* names given here are already clean, so sanitizeUserText leaves them as
\* they are
validateDetails(b0) ==
  IF ~IsPlainObject(b0) THEN Refused("details must be an object")
  ELSE LET b == b0.v IN
  IF ~("public" \in DOMAIN b /\ b["public"].t = "boolean")
  THEN Refused("details.public must be boolean")
  ELSE IF "shortlistName" \in DOMAIN b /\ b["shortlistName"].t \notin {"undefined", "null", "string"}
  THEN Refused("details.shortlistName must be a string")
  ELSE IF "shortlistName" \in DOMAIN b
          /\ (b["shortlistName"].t # "string" \/ b["shortlistName"].c = <<>>)
  THEN DetailsRules(Without(b, "shortlistName"))
  ELSE IF "shortlistName" \in DOMAIN b
  THEN DetailsRules([b EXCEPT !["shortlistName"] = Txt(Take(b["shortlistName"].c, MAX_TEXT))])
  ELSE DetailsRules(b)

\* positions of a rule list where something special may stand
Spots == {1, 2, MAX_RULES - 1, MAX_RULES, MAX_RULES + 1, MaxRuleList}
ListLengths == {0} \cup Spots
\* rule k of a list: its own id, except that rule j repeats the id of rule i
\* (padded or not), and rule bad is refused for its id or for another field
SentRuleList(len, i, j, pad, bad, badId) ==
  [k \in 1..len |->
     RawRule(IF k = bad /\ badId THEN 0 ELSE IF k = j THEN i ELSE k,
             k = j /\ pad, ~(k = bad /\ ~badId), k)]
SentRuleLists ==
  { SentRuleList(len, ij[1], ij[2], pad, bad, badId) :
      len \in ListLengths,
      ij \in {<<0, 0>>} \cup {p \in Spots \X Spots : p[1] < p[2]},
      pad \in BOOLEAN, bad \in {0} \cup Spots, badId \in BOOLEAN }
OddNotifications ==
  { Null, Str("x"), Arr(<<>>), Obj([version |-> Num(2), rules |-> Arr(<<>>)]),
    Obj([version |-> Num(1), rules |-> Str("x")]), Obj([version |-> Num(1)]) }
DetailsBodies ==
  { Obj(("public" :> Bool(p)) @@
        ("emailNotifications" :> Obj([version |-> Num(1), rules |-> Arr(l)]))) :
      p \in BOOLEAN, l \in SentRuleLists }
  \cup { Obj(Field("public", pub # Undef, pub) @@ Field("shortlistName", sn # Undef, sn)
             @@ Field("emailNotifications", en # Undef, en)) :
           pub \in {Undef, Str("true"), Bool(TRUE), Bool(FALSE)},
           sn \in {Undef, Null, Num(1), Txt(<<>>), Txt(<<"a">>)},
           en \in {Undef} \cup OddNotifications }
  \cup { Null, Arr(<<>>) }

\* handleAccountPut at "value = validateDetails(body)"
DetailsInit ==
  /\ Quiet
  /\ pack = NoPack
  /\ \E b \in DetailsBodies :
       mcall = [fn |-> "validateDetails", pc |-> "call", given |-> b, ret |-> Refused("")]
ValidateDetails ==
  /\ mcall.fn = "validateDetails" /\ mcall.pc = "call"
  /\ mcall' = [mcall EXCEPT !.pc = "ret", !.ret = validateDetails(mcall.given)]
  /\ UNCHANGED handlerVars
DetailsSpec == DetailsInit /\ [][ValidateDetails]_vars


\* ------------------------------------------------------------ GET /u/:uuid/:resource
RESOURCES == {"details", "favourites", "sampled", "score"}
\* the account the route names, and another account
RouteUser == "u1"
Stranger == "u2"

\* a token as verifyJwt finds it: fault names the first of its checks that
\* fails ("" when none does), sub is the payload's sub
Jwt(sub, fault) == [sub |-> sub, fault |-> fault]
Thrown(msg) == [ok |-> FALSE, err |-> msg, sub |-> ""]
\* verifyJwt(token, secret, {iss, aud})
verifyJwt(t) ==
  IF t.fault \in {"parts", "alg", "signature"} THEN Thrown("Invalid token")
  ELSE IF t.fault = "exp" THEN Thrown("Token expired")
  ELSE IF t.fault \in {"iss", "aud"} THEN Thrown("Invalid token")
  ELSE IF t.sub = "" THEN Thrown("Invalid token")
  ELSE [ok |-> TRUE, err |-> "", sub |-> t.sub]

\* the Authorization header: none, or a scheme and a token
NoAuthorization == [scheme |-> "", token |-> Jwt("", "")]
\* bearerToken(req) and requireAuthSub(req, env)
requireAuthSub(h) ==
  IF h.scheme # "Bearer" THEN Thrown("Missing bearer token") ELSE verifyJwt(h.token)

\* the status fetch() gives an error thrown by the router
StatusOfError(msg) ==
  IF msg \in {"Missing bearer token", "Invalid token", "Token expired"} THEN 401
  ELSE IF msg \in {"Expected application/json", "Invalid email", "details must be an object"}
  THEN 400 ELSE 500

Reply(status, value) == [status |-> status, value |-> value]
\* defaultValue(resource)
defaultValue(resource) ==
  CASE resource = "details" -> Obj([public |-> Bool(FALSE)])
    [] resource \in {"favourites", "sampled"} -> Arr(<<>>)
    [] OTHER -> Obj(Absent)
\* x ?? y
OrElse(x, y) == IF x.t \in {"undefined", "null"} THEN y ELSE x

\* the JWT step of handleAccountGet, then the resource
Guarded(h, userId, value) ==
  LET a == requireAuthSub(h) IN
  IF ~a.ok THEN Reply(StatusOfError(a.err), Str(a.err))
  ELSE IF a.sub # userId THEN Reply(403, Str("Forbidden"))
  ELSE Reply(200, value)

\* handleAccountGet(req, env, userId, resource) under fetch(): kv holds the
\* account's stored details and the stored value of the resource asked for
handleAccountGet(h, userId, resource, kv) ==
  IF resource = "details"
  THEN Guarded(h, userId, OrElse(kv.details, defaultValue("details")))
  ELSE LET details == OrElse(kv.details, defaultValue("details"))
           isPublic == IF details.v.public.t = "boolean" THEN details.v.public.v ELSE FALSE
           value == OrElse(kv.value, defaultValue(resource))
       IN IF ~isPublic THEN Guarded(h, userId, value) ELSE Reply(200, value)

JwtFaults == {"", "parts", "alg", "signature", "exp", "iss", "aud"}
Authorizations ==
  { NoAuthorization, [scheme |-> "Basic", token |-> Jwt(RouteUser, "")] }
  \cup { [scheme |-> "Bearer", token |-> Jwt(sub, fault)] :
           sub \in {"", RouteUser, Stranger}, fault \in JwtFaults }
StoredDetails == { Null, Obj([public |-> Bool(TRUE)]), Obj([public |-> Bool(FALSE)]) }
StoredValues == { Null, Str("stored") }

\* router at "if (req.method === 'GET') return handleAccountGet(...)"
GetInit ==
  /\ Quiet
  /\ pack = NoPack
  /\ \E h \in Authorizations, resource \in RESOURCES, d \in StoredDetails, v \in StoredValues :
       mcall = [fn |-> "handleAccountGet", pc |-> "call", auth |-> h, resource |-> resource,
                kv |-> [details |-> d, value |-> IF resource = "details" THEN d ELSE v],
                resp |-> Reply(0, Null)]
AccountGet ==
  /\ mcall.fn = "handleAccountGet" /\ mcall.pc = "call"
  /\ mcall' = [mcall EXCEPT !.pc = "ret",
                 !.resp = handleAccountGet(mcall.auth, RouteUser, mcall.resource, mcall.kv)]
  /\ UNCHANGED handlerVars
GetSpec == GetInit /\ [][AccountGet]_vars


\* ------------------------------------------------------------ one-time action tokens
\* Requests 1..MaxRequests present one and the same action token (one jti,
\* sub RouteUser) to /verify-email or /password-reset/confirm. Every await of
\* a handler is a step of its own, so the requests interleave at the KV calls.
ActionTypes == {"email_verify", "pw_reset"}
Presenters == 1..MaxRequests
NoIndex == [userId |-> "", pwHash |-> "", verified |-> FALSE]
\* mcall.action is the value under auth/action/<typ>/<jti> ("" when the key
\* is absent), mcall.index the email index entry, mcall.details the account's
\* details; took and changed record which requests takeAction gave the
\* userId to and which wrote the email index
ActionInit ==
  /\ Quiet
  /\ pack = NoPack
  /\ \E typ \in ActionTypes, fault \in {"", "exp"}, stored \in {"", RouteUser, Stranger},
        owner \in {"", RouteUser, Stranger}, ends \in [Presenters -> ActionTypes] :
       mcall = [fn |-> "action", pc |-> "run", typ |-> typ, token |-> Jwt(RouteUser, fault),
                action |-> stored,
                index |-> [NoIndex EXCEPT !.userId = owner, !.pwHash = "old"],
                details |-> [requiresVerify |-> TRUE],
                reqs |-> [r \in Presenters |->
                            [pc |-> "verify", endpoint |-> ends[r], v |-> "", idx |-> NoIndex,
                             details |-> [requiresVerify |-> TRUE], status |-> 0]],
                took |-> {}, changed |-> {}]
At(r, pc) == mcall.fn = "action" /\ mcall.reqs[r].pc = pc
MoveTo(r, pc) == [mcall EXCEPT !.reqs[r].pc = pc]
Finish(m, r, status) == [m EXCEPT !.reqs[r].pc = "done", !.reqs[r].status = status]

\* verifyJwt and the test of typ, jti, sub and email
VerifyToken(r) ==
  /\ At(r, "verify")
  /\ mcall' = IF ~verifyJwt(mcall.token).ok \/ mcall.typ # mcall.reqs[r].endpoint
              THEN Finish(mcall, r, 400) ELSE MoveTo(r, "take_get")
  /\ UNCHANGED handlerVars
\* takeAction: "const v = await env.AUTH_KV.get(k); if (!v) return null"
TakeGet(r) ==
  /\ At(r, "take_get")
  /\ mcall' = IF mcall.action = "" THEN Finish(mcall, r, 400)
              ELSE [MoveTo(r, "take_delete") EXCEPT !.reqs[r].v = mcall.action]
  /\ UNCHANGED handlerVars
\* takeAction: "await env.AUTH_KV.delete(k); return v", then the handler's
\* "if (!stored || stored !== sub)"
TakeDelete(r) ==
  /\ At(r, "take_delete")
  /\ mcall' = LET m == [mcall EXCEPT !.action = "", !.took = @ \cup {r}] IN
              IF mcall.reqs[r].v # mcall.token.sub THEN Finish(m, r, 400)
              ELSE [m EXCEPT !.reqs[r].pc = "get_index"]
  /\ UNCHANGED handlerVars
\* "const idx = await getEmailIndex(env, email)" and its test
GetIndex(r) ==
  /\ At(r, "get_index")
  /\ mcall' = IF mcall.index.userId # mcall.token.sub THEN Finish(mcall, r, 400)
              ELSE [MoveTo(r, "put_index") EXCEPT !.reqs[r].idx = mcall.index]
  /\ UNCHANGED handlerVars
\* "await putEmailIndex(env, email, {...idx, verified: true, ...})", with the
\* hash of this request's password on /password-reset/confirm
PutIndex(r) ==
  /\ At(r, "put_index")
  /\ mcall' = [MoveTo(r, "get_details") EXCEPT
                 !.index = [mcall.reqs[r].idx EXCEPT
                              !.verified = TRUE,
                              !.pwHash = IF mcall.reqs[r].endpoint = "pw_reset"
                                         THEN "new" ELSE @],
                 !.changed = @ \cup {r}]
  /\ UNCHANGED handlerVars
\* "const details = (await getDetails(env, sub)) ?? { public: false }"
GetDetails(r) ==
  /\ At(r, "get_details")
  /\ mcall' = [MoveTo(r, "put_details") EXCEPT !.reqs[r].details = mcall.details]
  /\ UNCHANGED handlerVars
\* "await putAccountResource(env, sub, 'details', {...details, requiresVerify: false, ...})"
PutDetails(r) ==
  /\ At(r, "put_details")
  /\ mcall' = [Finish(mcall, r, IF mcall.reqs[r].endpoint = "pw_reset" THEN 200 ELSE 302)
                 EXCEPT !.details = [mcall.reqs[r].details EXCEPT !.requiresVerify = FALSE]]
  /\ UNCHANGED handlerVars
ActionSpec ==
  ActionInit /\ [][\E r \in Presenters :
                     \/ VerifyToken(r) \/ TakeGet(r) \/ TakeDelete(r) \/ GetIndex(r)
                     \/ PutIndex(r) \/ GetDetails(r) \/ PutDetails(r)]_vars


\* ======================================================= claims C1 .. C5
\* (checked under SmtpSpec, where wire records the connection's traffic)
AuthCmds == {"AUTH PLAIN", "AUTH LOGIN", "USERNAME", "PASSWORD"}
IsCmd(e) == e.dir \in {"C", "W"}
IsReply(e) == e.dir = "S" /\ e.what = "REPLY"
IsClose(e) == e.dir = "X" /\ e.what = "CLOSE"
AdvertisesStartTls(lines) ==
  \E l \in lines : Len(l) = 1 /\ l[1] \in {"STARTTLS", "starttls"}

\* C1: no AUTH command and no credential line is written on a connection
\* that is not encrypted; on a port other than 465 AUTH follows a STARTTLS
\* answered 220 and the upgrade of the socket; when the first EHLO reply
\* does not advertise STARTTLS nothing more is sent.
C1_NoPlaintextCredentials ==
  /\ \A i \in 1..Len(wire) :
       (IsCmd(wire[i]) /\ wire[i].what \in AuthCmds) =>
         /\ wire[i].tls
         /\ (env.port # 465) =>
              \E k \in 2..(i - 3) :
                /\ wire[k].dir = "C" /\ wire[k].what = "STARTTLS"
                /\ IsReply(wire[k + 1]) /\ wire[k + 1].code = 220
                /\ wire[k + 2].dir = "X" /\ wire[k + 2].what = "TLS"
  /\ \A i \in 2..Len(wire) :
       ( /\ env.port # 465
         /\ IsReply(wire[i])
         /\ wire[i - 1].what = "EHLO" /\ ~wire[i - 1].tls
         /\ ~AdvertisesStartTls(wire[i].lines) ) =>
         \A k \in (i + 1)..Len(wire) : ~IsCmd(wire[k])

C1_Witness ==
  /\ env.port = 587
  /\ \E i \in 1..Len(wire) : wire[i].dir = "C" /\ wire[i].what = "PASSWORD" /\ wire[i].tls
  /\ inv[1].pc = "exited"

\* C2: every step accepts exactly its required reply code; after any other
\* code no further command is sent and the attempt ends with an error that
\* carries the code.
Required(w) ==
  CASE w = "CONNECT"    -> {220}
    [] w = "EHLO"       -> {250}
    [] w = "STARTTLS"   -> {220}
    [] w = "AUTH PLAIN" -> {235}
    [] w = "AUTH LOGIN" -> {334}
    [] w = "USERNAME"   -> {334}
    [] w = "PASSWORD"   -> {235}
    [] w = "MAIL FROM"  -> {250}
    [] w = "RCPT TO"    -> {250, 251}
    [] w = "DATA"       -> {354}
    [] w = "BODY"       -> {250}
    [] OTHER            -> Codes

\* the command a reply answers: the entry before it, or the TLS upgrade's
\* predecessor never (a reply always follows CONNECT or a command)
WrongReply(i) ==
  /\ IsReply(wire[i])
  /\ wire[i].code \notin Required(wire[i - 1].what)

C2_ExactReplyCodes ==
  /\ \A i \in 2..Len(wire) :
       WrongReply(i) =>
         /\ Len(wire) = i + 1
         /\ IsClose(wire[i + 1])
         /\ sent = 0
         /\ Len(failures) = 1
         /\ failures[1].error.code = wire[i].code
         /\ inv[1].pc = "exited"
  /\ (Len(failures) = 1 /\ failures[1].error.code # 0) =>
       (Len(wire) >= 3 /\ WrongReply(Len(wire) - 1)
          /\ wire[Len(wire) - 1].code = failures[1].error.code)

C2_Witness ==
  /\ Len(wire) >= 3
  /\ WrongReply(Len(wire) - 1)
  /\ wire[Len(wire) - 2].what = "MAIL FROM"
  /\ wire[Len(wire) - 1].code = 251

\* C3: the commands of one attempt follow the fixed order; MAIL FROM only
\* after a 235, the body only after a 354, STARTTLS at most once and never
\* on port 465.
IsStep(e) == e.dir \in {"C", "W", "X"}
Steps == LET p == SelectSeq(wire, IsStep) IN [i \in 1..Len(p) |-> p[i].what]
StepsBeforeClose ==
  IF Len(Steps) > 0 /\ Steps[Len(Steps)] = "CLOSE"
  THEN SubSeq(Steps, 1, Len(Steps) - 1) ELSE Steps
Opening(port) ==
  IF port = 465 THEN <<"CONNECT", "EHLO">>
  ELSE <<"CONNECT", "EHLO", "STARTTLS", "TLS", "EHLO">>
Conversations(port) ==
  { Opening(port) \o a \o <<"MAIL FROM", "RCPT TO", "DATA", "BODY", "QUIT">> :
      a \in { <<"AUTH PLAIN">>, <<"AUTH LOGIN", "USERNAME", "PASSWORD">> } }
IsPrefix(s, t) == Len(s) <= Len(t) /\ \A i \in 1..Len(s) : s[i] = t[i]

C3_FixedOrder ==
  /\ \E f \in Conversations(env.port) : IsPrefix(StepsBeforeClose, f)
  /\ \A i \in 2..Len(wire) :
       /\ (IsCmd(wire[i]) /\ wire[i].what = "MAIL FROM") =>
             (IsReply(wire[i - 1]) /\ wire[i - 1].code = 235)
       /\ (IsCmd(wire[i]) /\ wire[i].what = "BODY") =>
             (IsReply(wire[i - 1]) /\ wire[i - 1].code = 354)
       /\ IsCmd(wire[i]) =>
             (IsReply(wire[i - 1]) \/ wire[i - 1].what = "TLS")
  /\ Cardinality({i \in 1..Len(wire) : wire[i].what = "STARTTLS"}) <= 1
  /\ (env.port = 465) => \A i \in 1..Len(wire) : wire[i].what # "STARTTLS"

C3_Witness ==
  /\ env.port = 587
  /\ Steps = <<"CONNECT", "EHLO", "STARTTLS", "TLS", "EHLO", "AUTH LOGIN",
               "USERNAME", "PASSWORD", "MAIL FROM", "RCPT TO", "DATA", "BODY",
               "QUIT", "CLOSE">>
  /\ sent = 1

\* C4: after a successful STARTTLS, EHLO is re-issued on the upgraded
\* connection and the authentication mechanism is the one the post-TLS
\* EHLO reply calls for, whatever was advertised before encryption.
MechOf(lines) ==
  IF hasAuthPlain(parseEhloCaps(lines)) THEN "AUTH PLAIN"
  ELSE IF hasAuthLogin(parseEhloCaps(lines)) THEN "AUTH LOGIN"
  ELSE "none"
StartTlsOkAt(i) ==
  /\ i >= 2 /\ i <= Len(wire)
  /\ IsReply(wire[i]) /\ wire[i].code = 220
  /\ wire[i - 1].dir = "C" /\ wire[i - 1].what = "STARTTLS"

C4_ReEhloDecidesAuth ==
  \A i \in 2..Len(wire) :
    StartTlsOkAt(i) =>
      /\ Len(wire) >= i + 2
      /\ wire[i + 1].dir = "X" /\ wire[i + 1].what = "TLS"
      /\ IsCmd(wire[i + 2]) /\ wire[i + 2].what = "EHLO" /\ wire[i + 2].tls
      /\ (Len(wire) >= i + 3 /\ IsReply(wire[i + 3]) /\ wire[i + 3].code = 250) =>
           /\ Len(wire) >= i + 4
           /\ IF MechOf(wire[i + 3].lines) = "none"
              THEN IsClose(wire[i + 4])
              ELSE IsCmd(wire[i + 4]) /\ wire[i + 4].what = MechOf(wire[i + 3].lines)
      /\ \A k \in (i + 3)..Len(wire) :
           (IsCmd(wire[k]) /\ wire[k].what \in {"AUTH PLAIN", "AUTH LOGIN"}) =>
             wire[k].what = MechOf(wire[i + 3].lines)

C4_Witness ==
  \E i \in 4..Len(wire) :
    /\ StartTlsOkAt(i)
    /\ MechOf(wire[i - 2].lines) = "AUTH PLAIN"
    /\ Len(wire) >= i + 4
    /\ MechOf(wire[i + 3].lines) = "AUTH LOGIN"
    /\ wire[i + 4].dir = "C" /\ wire[i + 4].what = "AUTH LOGIN"

\* C5 (as claimed): the socket an invocation opened is closed on every exit
\* path, and no invocation stays pending for ever with its socket open.
C5_SocketAlwaysClosed ==
  \A j \in JobSlots : [](inv[j].open => <>(~inv[j].open))


\* ====================================================== claims C6 .. C10
\* (checked under Spec / FairSpec: the whole of handleEmailPack)
OpenSockets == {j \in JobSlots : inv[j].open}

\* C6 (as claimed): at most one SMTP socket is open at any time of a run.
C6_OneSocketAtATime == Cardinality(OpenSockets) <= 1

\* C7: every job is attempted once and in list order; a failed delivery is
\* recorded as {to, error} with the reply code (550 to RCPT TO) and the
\* later jobs are still attempted; a delivery error never aborts the run.
Awaited(j) == h_pc = "await" /\ attempted = j
C7_StateInv ==
  /\ attempted <= Len(jobs)
  /\ sent + Len(failures) = attempted - (IF h_pc = "await" THEN 1 ELSE 0)
  /\ \A i \in 1..Len(failures) :
       /\ \E j \in 1..attempted : failures[i].to = jobs[j].to
       /\ \A k \in 1..(i - 1) : failures[k].to < failures[i].to
  /\ \A j \in JobSlots :
       /\ inv[j].conns <= 1
       /\ (j > attempted) => inv[j] = IdleInv
  /\ (h_pc = "threw") => (attempted = 0 /\ failures = <<>>)
  /\ (h_pc = "done") => attempted = Len(jobs)
C7_RcptRefused ==
  \A j \in JobSlots :
    ( /\ Awaited(j)
      /\ inv[j].pc = "rcpt"
      /\ inv'[j].pc = "exited"
      /\ inv'[j].r \notin {250, 251} ) =>
      /\ failures' = Append(failures,
            [to |-> jobs[j].to,
             error |-> [msg |-> "SMTP RCPT TO failed", code |-> inv'[j].r]])
      /\ sent' = sent
      /\ h_pc' = "loop"
C7_PerRecipientIsolation == []C7_StateInv /\ [][C7_RcptRefused]_vars

C7_Witness ==
  /\ h_pc = "done"
  /\ Len(jobs) = 2
  /\ failures = <<[to |-> jobs[1].to,
                   error |-> [msg |-> "SMTP RCPT TO failed", code |-> 550]]>>
  /\ sent = 1

\* C8: a delivery that outlasts its 30000 ms budget is recorded as a failure
\* of that job only, the other jobs are still attempted, and the run ends
\* with a report even if the peer never sends another byte.
C8_TimeoutRecorded ==
  ( /\ h_pc = "await"
    /\ h_pc' # "await"
    /\ inv'[attempted] = inv[attempted] ) =>
    /\ failures' = Append(failures,
          [to |-> jobs[attempted].to,
           error |-> [msg |-> "sendMailSmtp(email pack) timed out", code |-> 30000]])
    /\ h_pc' = "loop"
    /\ sent' = sent
    /\ attempted' = attempted
    /\ inv' = inv
C8_TimeoutIsOneFailure ==
  /\ [][C8_TimeoutRecorded]_vars
  /\ []((h_pc = "done") => (attempted = Len(jobs) /\ sent + Len(failures) = Len(jobs)))
  /\ ((h_pc = "await") ~> (h_pc = "done"))

C8_Witness ==
  /\ h_pc = "done"
  /\ Len(jobs) = 2
  /\ Len(failures) = 1
  /\ failures[1].to = jobs[1].to
  /\ failures[1].error.code = 30000
  /\ inv[1].pc = "banner"
  /\ sent = 1

\* C9 (as claimed): once the pack is validated no error aborts the run.
AdmissionErrors ==
  {"Unauthorized", "Expected application/json",
   "email event pack version must be 1",
   "email event pack generatedAt must be string"}
C9_NoAbortOnceValidated == (h_pc = "threw") => (thrown.msg \in AdmissionErrors)

\* C10: no retry inside a run: per job at most one connection is opened
\* and at most one MAIL FROM transaction is started, whatever the outcome.
C10_NoRetry ==
  \A j \in JobSlots : inv[j].conns <= 1 /\ inv[j].mails <= 1

C10_Witness ==
  /\ h_pc = "done"
  /\ Len(jobs) = 2
  /\ Len(failures) = 2
  /\ failures[1].error.msg = "SMTP RCPT TO failed"
  /\ failures[2].error.msg = "SMTP DATA failed"
  /\ \A j \in 1..2 : inv[j].conns = 1 /\ inv[j].mails = 1


\* ===================================================== claims C11 .. C20
\* C11: the report of a finished run is consistent: attempted and
\* matchedAccounts equal the number of jobs, matchedAccounts is at most
\* scannedAccounts, sent + failed = attempted, failed counts every failure,
\* and the failures listed are the first min(failed, 25), in job order.
JobOf(to) == CHOOSE j \in 1..Len(jobs) : jobs[j].to = to
C11_ReportConsistent ==
  (h_pc = "done") =>
    LET r == Report IN
    /\ r.email.attempted = Len(jobs)
    /\ r.matchedAccounts = Len(jobs)
    /\ r.matchedAccounts <= r.scannedAccounts
    /\ r.email.sent + r.email.failed = r.email.attempted
    /\ r.email.failed = Len(failures)
    /\ Len(r.failures) = (IF r.email.failed < 25 THEN r.email.failed ELSE 25)
    /\ \A i \in 1..Len(r.failures) : r.failures[i] = failures[i]
    /\ \A i \in 1..Len(failures) :
         /\ \E j \in 1..Len(jobs) : jobs[j].to = failures[i].to
         /\ \A k \in 1..(i - 1) : JobOf(failures[k].to) < JobOf(failures[i].to)

C11_Witness ==
  /\ h_pc = "done"
  /\ Len(jobs) = 26
  /\ Report.email.failed = 26
  /\ Len(Report.failures) = 25
  /\ Report.failures[25].to = jobs[25].to


\* the entries of kvLog
LogIdx == 1..Len(kvLog)
IsOp(i, op) == kvLog[i].op = op
OpsOf(op) == {i \in LogIdx : IsOp(i, op)}
\* an index record that was read and does not stop the scan of its key
Qualifies(i) ==
  IsOp(i, "get") /\ kvLog[i].ok /\ ~kvLog[i].val /\ kvLog[i].user # "bad"

\* C12: the scan evaluates each userId at most once, also when several keys,
\* on one page or on different pages, name it: the rule configuration is
\* read once per userId, scannedAccounts counts the distinct userIds, and no
\* two jobs have the same userId.
C12_EachUserOnce ==
  /\ \A i \in OpsOf("details"), j \in OpsOf("details") :
       kvLog[i].user = kvLog[j].user => i = j
  /\ scannedAccounts = Cardinality({kvLog[i].user : i \in {n \in LogIdx : Qualifies(n)}})
  /\ Cardinality(OpsOf("details")) = scannedAccounts - (IF h_pc = "details" THEN 1 ELSE 0)
  /\ \A a \in 1..Len(jobs), b \in 1..Len(jobs) : jobs[a].userId = jobs[b].userId => a = b

C12_Witness ==
  /\ h_pc = "loop"
  /\ scannedAccounts = 1
  /\ \E i \in LogIdx, l \in LogIdx, j \in LogIdx :
       /\ i < l /\ l < j
       /\ Qualifies(i) /\ Qualifies(j)
       /\ IsOp(l, "list")
       /\ kvLog[i].user = kvLog[j].user
       /\ kvLog[i].key # kvLog[j].key

\* C13: an entry marked unverified, or whose userId is no well-formed UUID,
\* is skipped: no rule configuration is read for it and no job is made for
\* it; a user whose configuration has no enabled rule gets no job.
SkippedEntry(i) ==
  IsOp(i, "get") /\ kvLog[i].ok /\ (kvLog[i].val \/ kvLog[i].user = "bad")
NoEnabledRule(i) ==
  IsOp(i, "details") /\ kvLog[i].ok
    /\ \A n \in 1..Len(kvLog[i].val.rules) : kvLog[i].val.rules[n].enabled # TRUE
NoJobFor(key) == \A j \in 1..Len(jobs) : jobs[j].to # key
C13_SkipsUnqualified ==
  \A i \in LogIdx :
    /\ SkippedEntry(i) =>
         /\ NoJobFor(kvLog[i].key)
         /\ \A n \in LogIdx : n > i /\ kvLog[n].key = kvLog[i].key => IsOp(n, "list")
         /\ (h_pc \in {"details", "favs"}) => cur.key # kvLog[i].key
    /\ NoEnabledRule(i) =>
         /\ NoJobFor(kvLog[i].key)
         /\ \A n \in LogIdx : n > i => ~(kvLog[n].op \in {"favourites", "match"}
                                          /\ kvLog[n].key = kvLog[i].key)

C13_Witness ==
  /\ h_pc = "loop"
  /\ jobs = <<>>
  /\ \E i \in LogIdx : SkippedEntry(i) /\ kvLog[i].val /\ kvLog[i].user # "bad"
  /\ \E i \in LogIdx : NoEnabledRule(i) /\ kvLog[i].val.rules = <<RuleOff("shortlist")>>

\* C14: the scan pages until exhaustion: the first page is asked for without
\* a cursor and every later page with the cursor the page before returned;
\* every key of every page returned is examined; no page is asked for after
\* one that reported list_complete or returned no cursor, and the scan ends
\* only after such a page; the scan ends when the store answers.
Lists == OpsOf("list")
PrevList(i) == CHOOSE l \in Lists : l < i /\ \A m \in Lists : m < i => m <= l
IsLastPage(i) == kvLog[i].ok /\ (kvLog[i].val.complete \/ kvLog[i].val.cursor = 0)
C14_Pagination ==
  /\ \A i \in Lists :
       /\ (\A l \in Lists : l >= i) => kvLog[i].key = 0
       /\ (\E l \in Lists : l < i) =>
            /\ kvLog[PrevList(i)].ok
            /\ ~IsLastPage(PrevList(i))
            /\ kvLog[i].key = kvLog[PrevList(i)].val.cursor
       /\ (kvLog[i].ok /\ (h_pc = "loop" \/ \E l \in Lists : l > i)) =>
            \A k \in (kvLog[i].key + 1)..(kvLog[i].key + kvLog[i].val.n) :
              \E n \in OpsOf("key") : n > i /\ kvLog[n].key = k
  /\ (h_pc = "loop") => \E i \in Lists : IsLastPage(i) /\ \A l \in Lists : l <= i
C14_PagesUntilExhaustion ==
  []C14_Pagination /\ <>(h_pc \in {"loop", "threw"})

C14_Witness ==
  /\ h_pc = "loop"
  /\ Cardinality(Lists) = 2
  /\ Cardinality(OpsOf("key")) = 2
  /\ \E i \in Lists : kvLog[i].ok /\ ~kvLog[i].val.complete /\ kvLog[i].val.cursor = 0

\* C15: a job exists for a user exactly when the user's enabled rules
\* matched at least one event: the jobs are, in order, the non-empty results
\* of matchEventsForUser, and every job holds at least one event.
RECURSIVE MatchedUsers(_)
MatchedUsers(i) ==
  IF i = 0 THEN <<>>
  ELSE MatchedUsers(i - 1)
       \o (IF IsOp(i, "match") /\ kvLog[i].val.n >= 1
           THEN <<[userId |-> kvLog[i].user, to |-> kvLog[i].key,
                   eventCount |-> kvLog[i].val.n]>>
           ELSE <<>>)
C15_JobIffMatch ==
  /\ jobs = MatchedUsers(Len(kvLog))
  /\ matchedAccounts = Len(jobs)
  /\ \A j \in 1..Len(jobs) : jobs[j].eventCount >= 1

C15_Witness ==
  /\ h_pc = "loop"
  /\ Len(jobs) = 1
  /\ \E i \in OpsOf("match"), j \in OpsOf("match") :
       kvLog[i].val.n = 0 /\ kvLog[j].val.n = 1 /\ jobs[1].userId = kvLog[j].user

\* C16: the favourites of a user are read only when one of the user's
\* enabled rules has scope shortlist; when all enabled rules have scope all
\* no favourites read is issued and the match runs with an empty set.
EnabledShortlist(rules) ==
  \E n \in 1..Len(rules) : rules[n].enabled = TRUE /\ rules[n].scope = "shortlist"
C16_LazyFavourites ==
  /\ \A i \in OpsOf("favourites") :
       /\ i > 1
       /\ IsOp(i - 1, "details")
       /\ kvLog[i - 1].user = kvLog[i].user
       /\ EnabledShortlist(kvLog[i - 1].val.rules)
  /\ \A i \in OpsOf("match") :
       ~EnabledShortlist(kvLog[i].val.rules) =>
         /\ kvLog[i].val.favs = {}
         /\ IsOp(i - 1, "details")
         /\ \A n \in OpsOf("favourites") : kvLog[n].user # kvLog[i].user

C16_Witness ==
  /\ h_pc = "loop"
  /\ \E i \in OpsOf("match") :
       /\ kvLog[i].val.favs = {}
       /\ IsOp(i - 1, "details")
       /\ kvLog[i - 1].val.rules = <<RuleOn("all"), RuleOff("shortlist")>>
  /\ \E i \in OpsOf("favourites") : kvLog[i].ok /\ kvLog[i].val # {}


\* C17: nothing is read from the directory and nothing is sent by SMTP for
\* a request unless its signature and its timestamp (at most 300 seconds
\* from now) were verified and its pack passed validation; a pack whose
\* version is not 1, whose generatedAt is empty or no string, or whose skus
\* or events have the wrong shape ends the run with the validation error
\* before any account is scanned.
Untouched ==
  /\ kvLog = <<>> /\ wire = <<>>
  /\ scannedAccounts = 0 /\ jobs = <<>> /\ attempted = 0
  /\ \A j \in JobSlots : inv[j] = IdleInv
FreshlySigned(r) ==
  /\ r.secret /\ r.sig = "good"
  /\ r.ts.t = "number"
  /\ r.ts.v - r.now <= 300 /\ r.now - r.ts.v <= 300
TopShapeError(b) ==
  CASE b.t # "object" -> "email event pack must be an object"
    [] ~(b.v.version \in {Num(1), Str("1")}) -> "email event pack version must be 1"
    [] b.v.generatedAt.t # "string" \/ b.v.generatedAt.c \in {<<>>, <<" ">>} ->
         "email event pack generatedAt must be string"
    [] b.v.skus.t # "object" -> "email event pack skus must be an object"
    [] b.v.events.t # "array" -> "email event pack events must be an array"
    [] OTHER -> ""
C17_AdmissionFirst ==
  /\ ~Untouched => (FreshlySigned(req) /\ req.json /\ body.t # "unparsable"
                    /\ TopShapeError(body) = "" /\ pack.ok)
  /\ (h_pc \in {"list", "key", "details", "favs", "loop", "await", "done"}) =>
       (FreshlySigned(req) /\ pack.ok)
  /\ (h_pc \notin {"hmac", "validate"} /\ FreshlySigned(req) /\ req.json
        /\ body.t # "unparsable" /\ TopShapeError(body) # "") =>
       (h_pc = "threw" /\ thrown.msg = TopShapeError(body) /\ Untouched)

C17_Witness ==
  /\ h_pc = "threw"
  /\ FreshlySigned(req) /\ req.now = 1300
  /\ thrown.msg = "email event pack events must be an array"
  /\ Untouched


\* what the claims about the validator call well-formed
SkuTokenOk(x) ==
  /\ IsString(x)
  /\ LET v == Trim(x.c) IN v # <<>> /\ Len(v) <= MAX_KEY /\ SKU_RE(v)
StoreIdOk(x) == IsString(x) => (Trim(x.c) = <<>> \/ STORE_ID_RE(Trim(x.c)))
KnownType(e) == IsPlainObject(e) /\ IsString(e.v.eventType) /\ e.v.eventType.v \in EVENT_TYPES
RowIsValid(e) == KnownType(e) /\ SkuTokenOk(e.v.sku) /\ StoreIdOk(e.v.storeId)
SkuEntryOk(en) ==
  /\ SkuTokenOk(Txt(en.key))
  /\ IsPlainObject(en.val)
  /\ (en.val.v.sku.t \in {"undefined", "null"} \/ SkuTokenOk(en.val.v.sku))
\* the body passed the checks of version, generatedAt and of the shape of
\* skus and events, and the validator has run
Validated == h_pc # "validate" /\ body \in PackBodies
RowsIn == Take(body.v.events.v, MAX_EVENTS)
EntriesIn == body.v.skus.v
AllEntries(P(_)) == \A i \in 1..Len(EntriesIn) : P(EntriesIn[i])
\* no entry of skus is rejected for its key or its sku
SkusAccepted == AllEntries(LAMBDA en : ~IsPlainObject(en.val) \/ SkuEntryOk(en))
\* no row of a known type has an invalid sku
RowsAccepted == \A i \in 1..Len(RowsIn) : KnownType(RowsIn[i]) => SkuTokenOk(RowsIn[i].v.sku)

\* C18: one bad event row never aborts the batch: rows of unrecognized
\* eventType, invalid sku or invalid storeId are skipped and the valid rows
\* among the first 50,000 are kept in their order.
C18_BadRowsSkipped ==
  (Validated /\ SkusAccepted) =>
    /\ pack.ok
    /\ LET kept == SelectSeq(RowsIn, RowIsValid) IN
         /\ Len(pack.events) = Len(kept)
         /\ \A i \in 1..Len(kept) :
              /\ pack.events[i].eventType = kept[i].v.eventType.v
              /\ pack.events[i].sku = Trim(kept[i].v.sku.c)
              /\ pack.events[i].id = TrimmedOrEmpty(kept[i].v.id)

\* C19: a malformed SKU entry (key, sku.sku or member outside the SKU
\* token grammar) is dropped and never fatal: the pack is returned with
\* every well-formed entry.
C19_BadSkusDropped ==
  (Validated /\ RowsAccepted) =>
    /\ pack.ok
    /\ AllEntries(LAMBDA en : SkuEntryOk(en) => Trim(en.key) \in DOMAIN pack.skus)
    /\ \A k \in DOMAIN pack.skus :
         /\ SKU_RE(k) /\ SKU_RE(pack.skus[k].sku)
         /\ \A i \in 1..Len(pack.skus[k].members) : SKU_RE(pack.skus[k].members[i])

DropOnly == {"oldPrice", "dropAbs", "dropPct", "isCheapestNow"}

\* C20 as stated: a validated event that is no PRICE_DROP carries none of
\* oldPrice, newPrice, dropAbs, dropPct, isCheapestNow.
C20_NoPriceFieldsOnOtherEvents ==
  (Validated /\ pack.ok) =>
    \A i \in 1..Len(pack.events) :
      pack.events[i].eventType # "PRICE_DROP" =>
        DOMAIN pack.events[i] \cap (DropOnly \cup {"newPrice"}) = {}

\* C20, amended: a validated event that is no PRICE_DROP carries none of
\* oldPrice, dropAbs, dropPct, isCheapestNow, whatever the input row
\* supplied; it carries newPrice exactly when the input row supplied
\* newPrice as a string, with that value.
C20_OnlyNewPriceOnOtherEvents ==
  (Validated /\ pack.ok) =>
    LET kept == SelectSeq(RowsIn, RowIsValid) IN
      /\ Len(pack.events) = Len(kept)
      /\ \A i \in 1..Len(kept) :
           pack.events[i].eventType # "PRICE_DROP" =>
             /\ DOMAIN pack.events[i] \cap DropOnly = {}
             /\ ("newPrice" \in DOMAIN pack.events[i]) <=> IsString(kept[i].v.newPrice)
             /\ ("newPrice" \in DOMAIN pack.events[i]) =>
                  pack.events[i].newPrice = kept[i].v.newPrice

C20_Witness ==
  /\ Validated /\ pack.ok
  /\ \E i \in 1..Len(pack.events) :
       /\ pack.events[i].eventType = "GLOBAL_NEW"
       /\ RowsIn[i].v.oldPrice = Str("10.00")
       /\ RowsIn[i].v.isCheapestNow = Bool(TRUE)
       /\ "newPrice" \in DOMAIN pack.events[i]
       /\ pack.events[i].newPrice = Str("8.00")


\* ---------------------------------------------------- claims C21 .. C30
\* a call of matchEventsForUser has returned
Returned == mcall.fn = "matchEventsForUser" /\ mcall.pc = "ret"
MRules == mcall.rules
MEvents == pack.events
RuleIdx == 1..Len(MRules)
EventIdx == 1..Len(MEvents)
\* rule ri matches event ei
Hit(ri, ei) == ruleMatchesEvent(pack, MRules[ri], MEvents[ei], mcall.favs)
\* every entry the call built: of the two maps and of the list returned
BuiltEntries == Values(mcall.byId) \o Values(mcall.byMarket) \o mcall.out
EnabledRules == SelectSeq(MRules, LAMBDA r : r.enabled)

\* C21: a rule contributes a match only if it is enabled and the event's
\* eventType equals its own: every id of a matchedRuleIds list is the id of
\* an enabled rule of the entry's eventType, the id of a disabled rule is
\* in no such list, and the disabled rules add nothing to the output.
C21_OnlyEnabledSameType ==
  Returned =>
    /\ \A i \in 1..Len(BuiltEntries) : \A k \in 1..Len(BuiltEntries[i].matchedRuleIds) :
         \E ri \in RuleIdx :
           /\ MRules[ri].id = BuiltEntries[i].matchedRuleIds[k]
           /\ MRules[ri].enabled
           /\ MRules[ri].eventType = BuiltEntries[i].eventType
         /\ \E ei \in EventIdx : MEvents[ei].eventType = BuiltEntries[i].eventType
    /\ \A ri \in RuleIdx : ~MRules[ri].enabled =>
         \A i \in 1..Len(BuiltEntries) : ~InList(MRules[ri].id, BuiltEntries[i].matchedRuleIds)
    /\ mcall.out = matchEventsForUser(pack, EnabledRules, mcall.favs).out

C21_Witness ==
  /\ Returned
  /\ mcall.out # <<>>
  /\ \E ri \in RuleIdx : \E ei \in EventIdx :
       /\ ~MRules[ri].enabled
       /\ MRules[ri].eventType = MEvents[ei].eventType
       /\ MEvents[ei].marketNew
  /\ \E ri \in RuleIdx : \A ei \in EventIdx :
       MRules[ri].enabled /\ MRules[ri].eventType # MEvents[ei].eventType


\* the effective acrossMarket of a rule as C23 states it, and with
\* PRICE_DROP set apart
ExplicitOrDefault(rule) ==
  IF rule.filters.acrossMarket.t = "boolean" THEN rule.filters.acrossMarket.v
  ELSE rule.eventType = "GLOBAL_NEW"
ExplicitOrDefaultButPriceDrop(rule) ==
  IF rule.eventType = "PRICE_DROP" THEN FALSE ELSE ExplicitOrDefault(rule)
\* the dedup key of an event in the market-level (TRUE) and in the
\* store-level (FALSE) map
KeyAt(market, ev) ==
  IF market
  THEN IF ev.marketId # <<>> THEN ev.marketId ELSE <<ev.eventType, "|">> \o ev.sku
  ELSE IF ev.id # <<>> THEN ev.id
       ELSE <<ev.eventType, "|">> \o ev.sku \o <<"|">> \o ev.storeId
MapAt(market) == IF market THEN mcall.byMarket ELSE mcall.byId
RuleOfId(id) == CHOOSE ri \in RuleIdx : MRules[ri].id = id
\* every match is in the map its rule's effective acrossMarket names, under
\* the key of that map, and no map holds a match of a rule of the other kind
PlacedBy(Effective(_)) ==
  /\ \A ri \in RuleIdx : \A ei \in EventIdx :
       Hit(ri, ei) =>
         LET map == MapAt(Effective(MRules[ri])) IN
           \E i \in 1..Len(map) :
             /\ map[i].key = KeyAt(Effective(MRules[ri]), MEvents[ei])
             /\ InList(MRules[ri].id, map[i].m.matchedRuleIds)
  /\ \A market \in BOOLEAN : \A i \in 1..Len(MapAt(market)) :
       \A k \in 1..Len(MapAt(market)[i].m.matchedRuleIds) :
         Effective(MRules[RuleOfId(MapAt(market)[i].m.matchedRuleIds[k])]) = market

\* C23 as stated: the effective acrossMarket is filters.acrossMarket when
\* set, for every event type, else true for GLOBAL_NEW only; matches of
\* rules whose effective acrossMarket is true are in the market-level map
\* under marketId (fallback eventType|sku), all others in the store-level
\* map under the event id (fallback eventType|sku|storeId).
C23_AcrossMarketAsStated == Returned => PlacedBy(ExplicitOrDefault)

\* C23, amended: the effective acrossMarket of a PRICE_DROP rule is false
\* whatever filters.acrossMarket says; for the other event types it is
\* filters.acrossMarket when set, else true for GLOBAL_NEW only; the two
\* maps and their keys are as stated.
C23_AcrossMarket == Returned => PlacedBy(ExplicitOrDefaultButPriceDrop)

C23_Witness ==
  /\ Returned
  /\ \E ri \in RuleIdx : \E ei \in EventIdx :
       /\ Hit(ri, ei)
       /\ MRules[ri].eventType = "PRICE_DROP"
       /\ MRules[ri].filters.acrossMarket = Bool(TRUE)
       /\ \E i \in 1..Len(mcall.byId) : mcall.byId[i].key = MEvents[ei].id
  /\ \E i \in 1..Len(mcall.byMarket) : mcall.byMarket[i].key = <<"GLOBAL_NEW", "|", "a">>


\* a call of ruleMatchesEvent has returned
Ret == mcall.fn = "ruleMatchesEvent" /\ mcall.pc = "ret"
\* what ruleMatchesEvent says of another rule or another event
Matches(rule, ev) == ruleMatchesEvent(pack, rule, ev, mcall.favs)
\* the alias members of a SKU
AliasesOf(sku) ==
  IF sku \in DOMAIN pack.skus
  THEN {pack.skus[sku].members[i] : i \in 1..Len(pack.skus[sku].members)}
  ELSE {}
InFavourites(ev) == ev.sku \in mcall.favs \/ AliasesOf(ev.sku) \cap mcall.favs # {}

\* C22: a rule of scope shortlist whose other predicates hold matches an
\* event if and only if the event's SKU or one of that SKU's alias members
\* is in the favourites; with no favourites it matches nothing.
C22_ShortlistIffFavourite ==
  (Ret /\ mcall.rule.scope = "shortlist"
       /\ Matches([mcall.rule EXCEPT !.scope = "all"], mcall.ev)) =>
    /\ mcall.ret <=> InFavourites(mcall.ev)
    /\ mcall.favs = {} => ~mcall.ret

\* the market flag of the event for the rule's type
FlagOf(rule, ev) ==
  CASE rule.eventType = "GLOBAL_NEW" -> ev.marketNew
    [] rule.eventType = "GLOBAL_RETURN" -> ev.marketReturn
    [] rule.eventType = "OUT_OF_STOCK" -> ev.marketOut
    [] OTHER -> TRUE
WithFlags(ev, x) ==
  [ev EXCEPT !.marketNew = x.marketNew, !.marketReturn = x.marketReturn,
             !.marketOut = x.marketOut]
WithFilter(rule, name, val) == [rule EXCEPT !.filters[name] = val]

\* C24: with effective acrossMarket true a rule matches only if the event
\* has the market flag of the rule's type set, and that flag is all the
\* setting asks for; with effective acrossMarket false, and for every
\* PRICE_DROP rule, no market flag changes the result.
C24_MarketFlag ==
  Ret =>
    LET rule == mcall.rule
        ev == mcall.ev
        across == ExplicitOrDefaultButPriceDrop(rule)
    IN
    /\ (across /\ ~FlagOf(rule, ev)) => ~mcall.ret
    /\ (across /\ FlagOf(rule, ev)) =>
         mcall.ret = Matches(WithFilter(rule, "acrossMarket", Bool(FALSE)), ev)
    /\ (~across \/ rule.eventType = "PRICE_DROP") =>
         \A x \in [marketNew : BOOLEAN, marketReturn : BOOLEAN, marketOut : BOOLEAN] :
           Matches(rule, WithFlags(ev, x)) = mcall.ret

C24_Witness ==
  /\ Ret /\ ~mcall.ret
  /\ mcall.rule.eventType = "GLOBAL_RETURN"
  /\ mcall.rule.filters.acrossMarket = Bool(TRUE)
  /\ mcall.ev.marketNew /\ ~mcall.ev.marketReturn
  /\ Matches(WithFilter(mcall.rule, "acrossMarket", Bool(FALSE)), mcall.ev)

\* a number field of the event: its value when it is a finite number
FiniteOf(ev, name) ==
  IF name \in DOMAIN ev /\ ev[name].t = "number" THEN ev[name] ELSE Undef
AtLeast(x, t) == x.t = "number" /\ x.v >= t.v

\* C25: a PRICE_DROP rule with minDropAbs = t rejects an event whose
\* dropAbs is missing, not finite or below t, and dropAbs >= t passes this
\* filter (dropAbs 20: t = 10 matches, t = 30 does not); minDropPct does
\* the same on dropPct; requireCheapestNow = true rejects an event whose
\* isCheapestNow is not true.
C25_PriceThresholds ==
  (Ret /\ mcall.rule.eventType = "PRICE_DROP") =>
    LET rule == mcall.rule
        f == rule.filters
        ev == mcall.ev
    IN
    /\ f.minDropAbs.t = "number" =>
         IF AtLeast(FiniteOf(ev, "dropAbs"), f.minDropAbs)
         THEN mcall.ret = Matches(WithFilter(rule, "minDropAbs", Undef), ev)
         ELSE ~mcall.ret
    /\ f.minDropPct.t = "number" =>
         IF AtLeast(FiniteOf(ev, "dropPct"), f.minDropPct)
         THEN mcall.ret = Matches(WithFilter(rule, "minDropPct", Undef), ev)
         ELSE ~mcall.ret
    /\ f.requireCheapestNow.t = "boolean" /\ f.requireCheapestNow.v =>
         IF "isCheapestNow" \in DOMAIN ev /\ ev.isCheapestNow.t = "boolean"
            /\ ev.isCheapestNow.v
         THEN mcall.ret = Matches(WithFilter(rule, "requireCheapestNow", Undef), ev)
         ELSE ~mcall.ret
    /\ (rule.scope = "all" /\ f.minDropAbs.t = "number"
        /\ f = [NoFilters EXCEPT !.minDropAbs = f.minDropAbs]
        /\ FiniteOf(ev, "dropAbs") = Num(20)) =>
         (mcall.ret <=> f.minDropAbs.v <= 20)

C25_Witness ==
  /\ Ret /\ mcall.ret
  /\ mcall.rule.eventType = "PRICE_DROP"
  /\ mcall.rule.filters = [NoFilters EXCEPT !.minDropAbs = Num(10)]
  /\ FiniteOf(mcall.ev, "dropAbs") = Num(20)
  /\ FiniteOf(mcall.ev, "dropPct") = Num(25)

\* keyword k is contained, without regard to case, in the display name
Contained(k, name) ==
  LET kk == Trim(lc(k.c)) IN kk # <<>> /\ Includes(lc(name), kk)
DisplayName(ev) == IF ev.sku \in DOMAIN pack.skus THEN pack.skus[ev.sku].name ELSE <<>>
\* the predicates of a rule, each true when it is not active
StoreHolds(f, ev) == f.storeId.t = "string" => ev.storeId = f.storeId.c
AnyHolds(f, ev) ==
  (f.keywordsAny.t = "array" /\ f.keywordsAny.v # <<>>) =>
    \E i \in 1..Len(f.keywordsAny.v) : Contained(f.keywordsAny.v[i], DisplayName(ev))
NoneHolds(f, ev) ==
  f.keywordsNone.t = "array" =>
    \A i \in 1..Len(f.keywordsNone.v) : ~Contained(f.keywordsNone.v[i], DisplayName(ev))
ScopeHolds(rule, ev) == rule.scope = "shortlist" => InFavourites(ev)
MarketHolds(rule, ev) == ExplicitOrDefaultButPriceDrop(rule) => FlagOf(rule, ev)
PriceHolds(rule, ev) ==
  rule.eventType = "PRICE_DROP" =>
    /\ rule.filters.minDropAbs.t = "number" =>
         AtLeast(FiniteOf(ev, "dropAbs"), rule.filters.minDropAbs)
    /\ rule.filters.minDropPct.t = "number" =>
         AtLeast(FiniteOf(ev, "dropPct"), rule.filters.minDropPct)
    /\ rule.filters.requireCheapestNow = Bool(TRUE) =>
         ("isCheapestNow" \in DOMAIN ev /\ ev.isCheapestNow = Bool(TRUE))

\* C26: ruleMatchesEvent is the conjunction of the rule's predicates: the
\* event is accepted exactly when the rule is enabled, the types agree and
\* the store, keywordsAny, keywordsNone, scope, market flag and price
\* predicates all hold; one failing predicate rejects it.
C26_Conjunction ==
  Ret =>
    (mcall.ret <=>
       /\ mcall.rule.enabled
       /\ mcall.ev.eventType = mcall.rule.eventType
       /\ ScopeHolds(mcall.rule, mcall.ev)
       /\ StoreHolds(mcall.rule.filters, mcall.ev)
       /\ AnyHolds(mcall.rule.filters, mcall.ev)
       /\ NoneHolds(mcall.rule.filters, mcall.ev)
       /\ MarketHolds(mcall.rule, mcall.ev)
       /\ PriceHolds(mcall.rule, mcall.ev))


\* the level a rule's matches are kept at: TRUE is the market-level map
AtMarket(ri) == ExplicitOrDefaultButPriceDrop(MRules[ri])
\* the matches <<rule, event>> of one dedup key of one level
HitsAt(market, k) ==
  { h \in RuleIdx \X EventIdx :
      Hit(h[1], h[2]) /\ AtMarket(h[1]) = market /\ KeyAt(market, MEvents[h[2]]) = k }
KeysAt(market) ==
  { KeyAt(market, MEvents[h[2]]) :
      h \in {g \in RuleIdx \X EventIdx : Hit(g[1], g[2]) /\ AtMarket(g[1]) = market} }
\* rule order first, then pack order
Before(g, h) == g[1] < h[1] \/ (g[1] = h[1] /\ g[2] <= h[2])
FirstHit(market, k) ==
  CHOOSE h \in HitsAt(market, k) : \A g \in HitsAt(market, k) : Before(h, g)
RulesAt(market, k) == {h[1] : h \in HitsAt(market, k)}
\* the ids of the rules of S, in rule order
IdsOf(S) ==
  LET idx == SelectSeq([i \in RuleIdx |-> i], LAMBDA i : i \in S) IN
    [j \in 1..Len(idx) |-> MRules[idx[j]].id]
\* x is the entry of key k: the first matching event with the id of every
\* rule that matched the key
IsEntryOf(x, market, k) ==
  LET ev == MEvents[FirstHit(market, k)[2]] IN
    /\ x.eventId = ev.id /\ x.marketId = ev.marketId /\ x.eventType = ev.eventType
    /\ x.sku = ev.sku /\ x.storeId = ev.storeId
    /\ x.matchedRuleIds = IdsOf(RulesAt(market, k))
\* the level and the key of an entry of the list returned
LevelOf(x) == AtMarket(RuleOfId(x.matchedRuleIds[1]))
EntryKey(market, x) ==
  KeyAt(market, [id |-> x.eventId, marketId |-> x.marketId, eventType |-> x.eventType,
                 sku |-> x.sku, storeId |-> x.storeId])
OutFor(market, k) ==
  { i \in 1..Len(mcall.out) :
      LevelOf(mcall.out[i]) = market /\ EntryKey(market, mcall.out[i]) = k }
NoDuplicateIds(x) ==
  \A i, j \in 1..Len(x.matchedRuleIds) :
    i # j => x.matchedRuleIds[i] # x.matchedRuleIds[j]
\* the marketIds the store-level entries carry
StoreMarkets ==
  {MEvents[FirstHit(FALSE, k)[2]].marketId : k \in KeysAt(FALSE)} \ {<<>>}
\* the entry of market-level key k has the marketId of a store-level entry
Suppressed(k) == MEvents[FirstHit(TRUE, k)[2]].marketId \in StoreMarkets

\* C27 as stated: a dedup key matched by several rules has exactly one
\* entry in the output, the first matching event in rule order, then pack
\* order, whose matchedRuleIds holds the id of every rule that matched the
\* key exactly once; no matchedRuleIds list holds an id twice.
C27_OneEntryPerKey ==
  Returned =>
    /\ \A market \in BOOLEAN : \A k \in KeysAt(market) :
         Cardinality(RulesAt(market, k)) >= 2 =>
           /\ Cardinality(OutFor(market, k)) = 1
           /\ \A i \in OutFor(market, k) : IsEntryOf(mcall.out[i], market, k)
    /\ \A i \in 1..Len(mcall.out) : NoDuplicateIds(mcall.out[i])

\* C27, amended: a dedup key matched by several rules has exactly one entry
\* in its map, and in the output unless it is a market-level key whose entry
\* store-level precedence drops, in which case the output has none; the
\* entry is the first matching event in rule order, then pack order, and
\* its matchedRuleIds holds the id of every rule that matched the key
\* exactly once; no matchedRuleIds list holds an id twice.
C27_OneEntryPerKeyUnlessDropped ==
  Returned =>
    /\ \A market \in BOOLEAN : \A k \in KeysAt(market) :
         Cardinality(RulesAt(market, k)) >= 2 =>
           /\ Cardinality({i \in 1..Len(MapAt(market)) : MapAt(market)[i].key = k}) = 1
           /\ \A i \in 1..Len(MapAt(market)) :
                MapAt(market)[i].key = k => IsEntryOf(MapAt(market)[i].m, market, k)
           /\ IF market /\ Suppressed(k)
              THEN OutFor(market, k) = {}
              ELSE /\ Cardinality(OutFor(market, k)) = 1
                   /\ \A i \in OutFor(market, k) : IsEntryOf(mcall.out[i], market, k)
    /\ \A i \in 1..Len(BuiltEntries) : NoDuplicateIds(BuiltEntries[i])

C27_Witness ==
  /\ Returned
  /\ \E k \in KeysAt(TRUE) :
       /\ Cardinality(RulesAt(TRUE, k)) >= 2
       /\ Cardinality({h[2] : h \in HitsAt(TRUE, k)}) >= 2
       /\ ~Suppressed(k)
       /\ \E i \in OutFor(TRUE, k) : Len(mcall.out[i].matchedRuleIds) = 2

\* C28 as stated: the matches of rules with effective acrossMarket true
\* leave exactly one entry per market key in the output.
C28_OnePerMarket ==
  Returned => \A k \in KeysAt(TRUE) : Cardinality(OutFor(TRUE, k)) = 1

\* C28, amended: the matches of rules with effective acrossMarket true
\* leave at most one entry per market key in the output, however many
\* matched events share the marketId, and exactly one unless a store-level
\* entry has that marketId.
C28_OnePerMarketUnlessDropped ==
  Returned =>
    /\ \A k \in KeysAt(TRUE) :
         Cardinality(OutFor(TRUE, k)) = IF Suppressed(k) THEN 0 ELSE 1
    /\ \A i, j \in 1..Len(mcall.out) :
         (i # j /\ LevelOf(mcall.out[i]) /\ LevelOf(mcall.out[j])) =>
           EntryKey(TRUE, mcall.out[i]) # EntryKey(TRUE, mcall.out[j])

C28_Witness ==
  /\ Returned
  /\ Len(mcall.out) = 1
  /\ \E k \in KeysAt(TRUE) : \E g, h \in HitsAt(TRUE, k) :
       /\ g[1] = h[1]
       /\ MEvents[g[2]].marketId = k
       /\ MEvents[g[2]].storeId # MEvents[h[2]].storeId

\* C29: store-level precedence: no market-level entry of the output shares
\* its market (the marketId, or eventType|sku when the event has none) with
\* a store-level entry; every store-level entry is kept.
C29_StorePrecedence ==
  Returned =>
    /\ \A i, j \in 1..Len(mcall.out) :
         (LevelOf(mcall.out[i]) /\ ~LevelOf(mcall.out[j])) =>
           EntryKey(TRUE, mcall.out[i]) # EntryKey(TRUE, mcall.out[j])
    /\ \A k \in KeysAt(FALSE) :
         /\ Cardinality(OutFor(FALSE, k)) = 1
         /\ \A i \in OutFor(FALSE, k) : IsEntryOf(mcall.out[i], FALSE, k)

\* a <= b under the triple eventType, SKU display name, storeId
LeqMatched(a, b) ==
  LET t == localeCompareTypes(a.eventType, b.eventType)
      n == localeCompare(a.skuName, b.skuName)
      s == localeCompare(a.storeId, b.storeId)
  IN t < 0 \/ (t = 0 /\ (n < 0 \/ (n = 0 /\ s <= 0)))

\* C30: the list returned is sorted ascending by eventType, then SKU
\* display name, then storeId with the empty storeId first: every entry is
\* less than or equal to its successor under the triple, any two entries
\* compare, and the list holds the surviving entries and no other.
C30_Sorted ==
  Returned =>
    /\ \A i \in 1..(Len(mcall.out) - 1) :
         /\ LeqMatched(mcall.out[i], mcall.out[i + 1])
         /\ (mcall.out[i].eventType = mcall.out[i + 1].eventType
             /\ mcall.out[i].skuName = mcall.out[i + 1].skuName
             /\ mcall.out[i + 1].storeId = <<>>) => mcall.out[i].storeId = <<>>
    /\ \A i, j \in 1..Len(mcall.out) :
         LeqMatched(mcall.out[i], mcall.out[j]) \/ LeqMatched(mcall.out[j], mcall.out[i])
    /\ LET kept == marketOnly(mcall) \o Values(mcall.byId) IN
         /\ Len(mcall.out) = Len(kept)
         /\ {mcall.out[i] : i \in 1..Len(mcall.out)} = {kept[i] : i \in 1..Len(kept)}

C30_Witness ==
  /\ Returned
  /\ Len(mcall.out) >= 3
  /\ mcall.out # marketOnly(mcall) \o Values(mcall.byId)
  /\ \E i \in 1..(Len(mcall.out) - 1) :
       /\ mcall.out[i].storeId = <<>> /\ mcall.out[i + 1].storeId # <<>>
       /\ mcall.out[i].skuName = mcall.out[i + 1].skuName
       /\ mcall.out[i].eventType = mcall.out[i + 1].eventType

\* ===================================================== claims C31 .. C40
ReturnedTwice == mcall.fn = "matchEventsForUser twice" /\ mcall.pc = "ret"
\* two entries of a list that tie on (eventType, skuName, storeId)
Tie(a, b) == a.eventType = b.eventType /\ a.skuName = b.skuName /\ a.storeId = b.storeId

\* C31: matchEventsForUser is deterministic: two calls with the same pack,
\* rules and favourites return the same entries with the same
\* matchedRuleIds in the same order, ties on (eventType, skuName, storeId)
\* included; the list is the one stable sorting of the surviving entries.
C31_Deterministic ==
  ReturnedTwice =>
    /\ mcall.first = mcall.second
    /\ mcall.first.out = matchEventsForUser(pack, mcall.rules, mcall.favs).out

C31_Witness ==
  /\ ReturnedTwice
  /\ Len(mcall.first.out) >= 3
  /\ \E i, j \in 1..Len(mcall.first.out) :
       /\ i < j /\ Tie(mcall.first.out[i], mcall.first.out[j])
       /\ mcall.first.out[i] # mcall.first.out[j]

FedBack == mcall.fn = "matchEventsForUser again" /\ mcall.pc = "ret"

\* C32: deduplication is idempotent: the events of the list a call returned,
\* matched again with the same rules, give the same list.
C32_Idempotent == FedBack => mcall.second.out = mcall.first.out

\* (C33..C35 are checked under SmtpSpec, on the traffic recorded in wire)
\* an EHLO reply advertises SASL mechanism m: a line AUTH ... m ...
AdvertisesMech(lines, m) ==
  \E l \in lines :
    Len(l) >= 2 /\ UpperWord(l[1]) = "AUTH" /\ \E i \in 2..Len(l) : UpperWord(l[i]) = m
\* wire[i] is the accepted reply to the EHLO sent on the encrypted
\* connection: the reply smtpAuth works from
AuthEhlo(i) ==
  /\ IsReply(wire[i]) /\ wire[i].code = 250
  /\ wire[i - 1].dir = "C" /\ wire[i - 1].what = "EHLO" /\ wire[i - 1].tls
CmdsAfter(i, what) == {k \in (i + 1)..Len(wire) : IsCmd(wire[k]) /\ wire[k].what = what}

\* C33: when the EHLO reply advertises AUTH PLAIN and AUTH LOGIN the client
\* sends exactly one AUTH PLAIN and never AUTH LOGIN, whatever the answer
\* to AUTH PLAIN; AUTH LOGIN is sent only when PLAIN is not advertised; when
\* neither is advertised no AUTH command is sent and the attempt fails.
C33_PlainPreferred ==
  \A i \in 2..Len(wire) :
    AuthEhlo(i) =>
      LET plain == AdvertisesMech(wire[i].lines, "PLAIN")
          login == AdvertisesMech(wire[i].lines, "LOGIN")
      IN /\ (plain /\ login) =>
              /\ Cardinality(CmdsAfter(i, "AUTH PLAIN")) = 1
              /\ CmdsAfter(i, "AUTH LOGIN") = {}
         /\ CmdsAfter(i, "AUTH LOGIN") # {} => ~plain
         /\ (~plain /\ ~login) =>
              /\ CmdsAfter(i, "AUTH PLAIN") = {} /\ CmdsAfter(i, "AUTH LOGIN") = {}
              /\ Len(wire) = i + 1 /\ IsClose(wire[i + 1])
              /\ sent = 0 /\ Len(failures) = 1

\* wire[i] is the reply to command what, which was written
Answers(i, what) ==
  /\ i >= 2 /\ i <= Len(wire) /\ IsReply(wire[i])
  /\ wire[i - 1].dir = "C" /\ wire[i - 1].what = what
\* after the reply wire[i] nothing more is sent and the attempt has failed
\* with the reply's code
FailsAt(i) ==
  /\ Len(wire) = i + 1 /\ IsClose(wire[i + 1])
  /\ sent = 0 /\ Len(failures) = 1
  /\ failures[1].error.msg = "SMTP auth failed" /\ failures[1].error.code = wire[i].code
\* after the reply wire[i] the next thing written is command what
GoesOnWith(i, what) ==
  Len(wire) >= i + 1 /\ IsCmd(wire[i + 1]) /\ wire[i + 1].what = what

\* C34: AUTH LOGIN is a three-step exchange: AUTH LOGIN must be answered
\* 334, then the username 334, then the password 235; any other code at one
\* of the three steps fails the attempt at once, and the password is written
\* only after both earlier steps were answered 334.
C34_LoginThreeSteps ==
  /\ \A i \in 2..Len(wire) :
       /\ Answers(i, "AUTH LOGIN") =>
            IF wire[i].code = 334 THEN GoesOnWith(i, "USERNAME") ELSE FailsAt(i)
       /\ Answers(i, "USERNAME") =>
            IF wire[i].code = 334 THEN GoesOnWith(i, "PASSWORD") ELSE FailsAt(i)
       /\ Answers(i, "PASSWORD") =>
            IF wire[i].code = 235 THEN GoesOnWith(i, "MAIL FROM") ELSE FailsAt(i)
  /\ \A k \in 1..Len(wire) :
       /\ (IsCmd(wire[k]) /\ wire[k].what = "USERNAME") =>
            (Answers(k - 1, "AUTH LOGIN") /\ wire[k - 1].code = 334)
       /\ (IsCmd(wire[k]) /\ wire[k].what = "PASSWORD") =>
            /\ Answers(k - 1, "USERNAME") /\ wire[k - 1].code = 334
            /\ Answers(k - 3, "AUTH LOGIN") /\ wire[k - 3].code = 334

C34_Witness ==
  /\ \E i \in 2..Len(wire) : Answers(i, "PASSWORD") /\ wire[i].code = 235
  /\ sent = 1 /\ inv[1].pc = "exited"

\* the attempt is over and was reported as a success
Delivered == inv[1].pc = "exited" /\ sent = 1 /\ failures = <<>>

\* C35: QUIT is written only after the message body was answered 250, and
\* what happens to it does not change the result: whether the write of QUIT
\* fails, the peer closes the connection or answers QUIT with any code, the
\* attempt ends as a success.
C35_QuitBestEffort ==
  /\ \A k \in 1..Len(wire) :
       (IsCmd(wire[k]) /\ wire[k].what = "QUIT") =>
         /\ Answers(k - 1, "BODY") /\ wire[k - 1].code = 250
         /\ (Len(wire) > k /\ wire[k].dir = "C") =>
              /\ wire[k + 1].dir = "S"
              /\ Len(wire) = k + 2 /\ IsClose(wire[k + 2]) /\ Delivered
         /\ wire[k].dir = "W" =>
              (Len(wire) = k + 1 /\ IsClose(wire[k + 1]) /\ Delivered)
  /\ \A i \in 2..Len(wire) :
       (Answers(i, "BODY") /\ wire[i].code = 250) => GoesOnWith(i, "QUIT")
  /\ sent = 1 => \E k \in 1..Len(wire) : IsCmd(wire[k]) /\ wire[k].what = "QUIT"

C35_Witness ==
  /\ Delivered
  /\ \E i \in 2..Len(wire) : Answers(i, "QUIT") /\ wire[i].code = 550

\* (C36 is checked under RespSpec)
Reading == mcall.fn = "readResponse"
\* the positions of the line feeds of the peer's stream, the line that ends
\* at one of them without its CRLF or LF, and the lines that end in (a, b]
LineEnds == {i \in 1..Len(mcall.stream) : mcall.stream[i] = "LF"}
LineEndingAt(e) ==
  LET from == IF \E k \in LineEnds : k < e
              THEN 1 + CHOOSE k \in LineEnds : k < e /\ \A j \in LineEnds : j < e => j <= k
              ELSE 1
      to == IF e - 1 >= from /\ mcall.stream[e - 1] = "CR" THEN e - 2 ELSE e - 1
  IN SubSeq(mcall.stream, from, to)
LinesWithin(a, b) ==
  LET S == {e \in LineEnds : a < e /\ e <= b} IN
    [i \in 1..Cardinality(S) |->
       LineEndingAt(CHOOSE e \in S : Cardinality({f \in S : f <= e}) = i)]
\* a line of the form <3-digit code><sep><text>
HasForm(t, sep) ==
  /\ Len(t) >= 4
  /\ \A i \in 1..3 : t[i] \in {"0", "1", "2", "3", "4", "5", "6", "7", "8", "9"}
  /\ t[4] = sep
  /\ \A i \in 5..Len(t) : t[i] # "CR"
\* where the final lines of the stream end; the n-th of them (0 for n = 0)
FinalEnds == {e \in LineEnds : HasForm(LineEndingAt(e), " ")}
NthFinal(n) ==
  IF n = 0 THEN 0
  ELSE CHOOSE e \in FinalEnds : Cardinality({f \in FinalEnds : f <= e}) = n
\* how much of the stream the socket has delivered, and how much of it the
\* calls have taken out of the buffer
Delivered36 == Len(mcall.stream) - Len(mcall.rest)
Taken == Delivered36 - Len(mcall.bufText)

\* C36: every call of readResponse returns exactly one reply: the lines up
\* to and including the first line of the form <3-digit code>' '<text>,
\* with that line's code; lines of the form <3-digit code>'-'<text> never
\* end a reply; what follows the final line stays in the buffer for the
\* next call, wherever the socket reads split the stream.
C36_OneReplyPerCall ==
  Reading =>
    LET n == Len(mcall.results) IN
      /\ n <= Cardinality(FinalEnds)
      /\ \A i \in 1..n :
           /\ mcall.results[i].lines = LinesWithin(NthFinal(i - 1), NthFinal(i))
           /\ mcall.results[i].code = CodeOf(LineEndingAt(NthFinal(i)))
           /\ \A k \in 1..(Len(mcall.results[i].lines) - 1) :
                ~HasForm(mcall.results[i].lines[k], " ")
      /\ mcall.bufText \o mcall.rest
           = SubSeq(mcall.stream, Taken + 1, Len(mcall.stream))
      /\ mcall.pc = "idle" => Taken = NthFinal(n)
      /\ mcall.pc \in {"read", "threw"} =>
           /\ mcall.lines = LinesWithin(NthFinal(n), Taken)
           /\ \A e \in FinalEnds : e > NthFinal(n) => e > Delivered36
           /\ \A i \in 1..Len(mcall.bufText) : mcall.bufText[i] # "LF"

C36_Witness ==
  /\ Reading /\ mcall.pc = "idle"
  /\ Len(mcall.results) = 1
  /\ Len(mcall.results[1].lines) = 2 /\ HasForm(mcall.results[1].lines[1], "-")
  /\ mcall.bufText # <<>> /\ mcall.rest # <<>>

\* (C37 is checked under DataSpec)
Written == mcall.fn = "sendRaw" /\ mcall.pc = "ret"
\* where in text s a line ends: at a CRLF, at a bare CR, at a bare LF (the
\* position of the last character of the line end), and where it begins
BreakEnds(s) ==
  {i \in 1..Len(s) : s[i] = "LF" \/ (s[i] = "CR" /\ ~(i < Len(s) /\ s[i + 1] = "LF"))}
BreakStart(s, i) == IF s[i] = "LF" /\ i > 1 /\ s[i - 1] = "CR" THEN i - 1 ELSE i
\* the lines of s under these line ends
TextLines(s) ==
  LET B == BreakEnds(s)
      nth(n) == IF n = 0 THEN 0 ELSE CHOOSE e \in B : Cardinality({f \in B : f <= e}) = n
      count == Cardinality(B)
  IN [n \in 1..(count + 1) |->
        SubSeq(s, nth(n - 1) + 1,
               IF n <= count THEN BreakStart(s, nth(n)) - 1 ELSE Len(s))]
\* the positions where t occurs in s
Occurrences(s, t) ==
  {i \in 1..(Len(s) - Len(t) + 1) : SubSeq(s, i, i + Len(t) - 1) = t}
EndOfData == <<"CR", "LF", ".", "CR", "LF">>
\* the lines of the payload between the empty line that ends the headers
\* and the line of the terminator
SentLines ==
  LET all == TextLines(mcall.data)
      blank == CHOOSE i \in 1..Len(all) : all[i] = <<>> /\ \A k \in 1..(i - 1) : all[k] # <<>>
  IN SubSeq(all, blank + 1, Len(all) - 2)

\* C37: in the DATA payload every body line that begins with '.' is sent
\* with one more '.' in front and every other body line as it is, no line
\* between the headers and the terminator is a single '.', and CRLF '.'
\* CRLF occurs once, at the very end, for every body text, also with bare
\* CR or bare LF line ends.
C37_DotStuffed ==
  Written =>
    LET given == TextLines(mcall.text) IN
      /\ Occurrences(mcall.data, EndOfData) = {Len(mcall.data) - 4}
      /\ Len(SentLines) = Len(given) + 1
      /\ SentLines[Len(SentLines)] = <<>>
      /\ \A i \in 1..Len(given) :
           SentLines[i] = IF given[i] # <<>> /\ given[i][1] = "."
                          THEN <<".">> \o given[i] ELSE given[i]
      /\ \A i \in 1..Len(SentLines) : SentLines[i] # <<".">>
      /\ \A i \in 1..Len(mcall.data) :
           /\ mcall.data[i] = "CR" => (i < Len(mcall.data) /\ mcall.data[i + 1] = "LF")
           /\ mcall.data[i] = "LF" => (i > 1 /\ mcall.data[i - 1] = "CR")

\* ---------------------------------------------------------------- C38
\* the document validateDetails has returned, when it carries rules
DetailsAccepted == mcall.fn = "validateDetails" /\ mcall.pc = "ret" /\ mcall.ret.ok
StoredRules ==
  IF "emailNotifications" \in DOMAIN mcall.ret.details
  THEN mcall.ret.details["emailNotifications"].v.rules.v ELSE <<>>
GivenRules ==
  LET b == mcall.given.v IN
  IF "emailNotifications" \in DOMAIN b /\ b["emailNotifications"].t = "object"
  THEN b["emailNotifications"].v["rules"].v ELSE <<>>
\* the rules of the input that are among its first MAX_RULES and repeat no
\* earlier id
FirstOfId ==
  { k \in 1..Len(GivenRules) :
      /\ k <= MAX_RULES
      /\ \A m \in 1..(k - 1) : GivenRules[m].uuid # GivenRules[k].uuid }

\* C38: a rule configuration accepted by validateDetails holds at most 50
\* rules, no two with the same id: it is, in input order, the rules among the
\* first 50 of the input that are the first of their id
C38_RulesCapped ==
  DetailsAccepted =>
    /\ Len(StoredRules) <= MAX_RULES
    /\ \A p, q \in 1..Len(StoredRules) : p # q => StoredRules[p].id # StoredRules[q].id
    /\ Len(StoredRules) = Cardinality(FirstOfId)
    /\ \A p \in 1..Len(StoredRules) :
         /\ StoredRules[p].tag \in FirstOfId
         /\ StoredRules[p].id = GivenRules[StoredRules[p].tag].uuid
    /\ \A p, q \in 1..Len(StoredRules) : p < q => StoredRules[p].tag < StoredRules[q].tag
\* an accepted list longer than the cap whose 49th rule repeats, with blanks
\* around it, the id of the first
C38_Witness ==
  /\ DetailsAccepted
  /\ Len(GivenRules) > MAX_RULES
  /\ GivenRules[MAX_RULES - 1].uuid = 1 /\ GivenRules[MAX_RULES - 1].pad
  /\ Len(StoredRules) = MAX_RULES - 1

\* ---------------------------------------------------------------- C39
Answered == mcall.fn = "handleAccountGet" /\ mcall.pc = "ret"
DetailsPublic == mcall.kv.details = Obj([public |-> Bool(TRUE)])
\* the request carries a token verifyJwt accepts
ValidJwt == mcall.auth.scheme = "Bearer" /\ mcall.auth.token.fault = "" /\ mcall.auth.token.sub # ""
Served ==
  /\ mcall.resp.status = 200
  /\ mcall.resp.value = OrElse(mcall.kv.value, defaultValue(mcall.resource))
\* what the claim requires of a GET for the resource at hand
GetRule ==
  IF DetailsPublic THEN Served
  ELSE IF ~ValidJwt THEN mcall.resp.status = 401
  ELSE IF mcall.auth.token.sub # RouteUser THEN mcall.resp.status = 403
  ELSE Served

\* C39: GET on /u/:uuid/:resource is served without a JWT when the account's
\* details.public is true, for each of details, favourites, sampled and score;
\* otherwise it is served only with a valid JWT whose sub is :uuid, and refused
\* with 401 without a valid token, with 403 for another user's token
C39_PublicGet == Answered => GetRule

\* ---------------------------------------------------------------- C40
\* C40: a one-time action token takes effect at most once: among the requests
\* that present the same jti, in any interleaving, at most one takeAction call
\* returns the stored userId and at most one request changes the account
C40_TakenOnce ==
  mcall.fn = "action" => Cardinality(mcall.took) <= 1 /\ Cardinality(mcall.changed) <= 1

====
